---- MODULE Spec2Model ----
(***************************************************************************)
(* MyLLMServer: the single-slot model lifecycle (server.py), the layered   *)
(* parameter validation (config.py, llm_manager.py) and the streaming      *)
(* generation pipeline, as a state machine of concurrent request handlers. *)
(***************************************************************************)
EXTENDS Integers, Sequences, FiniteSets, TLC

(***************************************************************************)
(* Bounds of the model.                                                    *)
(***************************************************************************)
\* number of requests started in one behaviour, one at a time
MaxRequests == 3
\* number of requests started in one behaviour of concurrent handlers
MaxConcurrent == 2
\* number of chunks an engine stream yields at most
MaxChunks == 2

(***************************************************************************)
(* JSON / Python values.  A value is a record [kind, n, s]: kind is the    *)
(* Python type, n the number of an int, bool or float, s the characters of *)
(* a str.                                                                  *)
(***************************************************************************)
IntV(i) == [kind |-> "int", n |-> i, s |-> <<>>]
\* a float is kept in hundredths: FloatV(70) is 0.7
FloatV(h) == [kind |-> "float", n |-> h, s |-> <<>>]
BoolV(b) == [kind |-> "bool", n |-> IF b THEN 1 ELSE 0, s |-> <<>>]
StrV(cs) == [kind |-> "str", n |-> 0, s |-> cs]
NullV == [kind |-> "null", n |-> 0, s |-> <<>>]
\* float("nan"): a float that is no number
NaNV == [kind |-> "nan", n |-> 0, s |-> <<>>]

\* Python ==: numbers (int, bool) compare by value, strings by characters,
\* None only equals None, a str never equals a number, NaN equals nothing.
IsNum(v) == v.kind \in {"int", "bool", "float"}
Hundredths(v) == IF v.kind = "float" THEN v.n ELSE v.n * 100

PyEq(v, w) ==
    CASE IsNum(v) -> IsNum(w) /\ Hundredths(v) = Hundredths(w)
      [] v.kind = "str" -> w.kind = "str" /\ v.s = w.s
      [] v.kind = "nan" -> FALSE
      [] OTHER -> w.kind = "null"

\* The empty dict.
EmptyDict == [k \in {} |-> NullV]

\* None, for a variable that holds None or a dict.
NoneDict == [isNone |-> TRUE, kv |-> EmptyDict]
Dict(kv) == [isNone |-> FALSE, kv |-> kv]

\* Python == on two values that are None or a dict.
DictEq(a, b) ==
    IF a.isNone \/ b.isNone THEN a.isNone /\ b.isNone
    ELSE /\ DOMAIN a.kv = DOMAIN b.kv
         /\ \A k \in DOMAIN a.kv : PyEq(a.kv[k], b.kv[k])

\* dict.update
DictUpdate(a, b) ==
    [k \in DOMAIN a \cup DOMAIN b |-> IF k \in DOMAIN b THEN b[k] ELSE a[k]]

(***************************************************************************)
(* Characters and the conversions int(str), str.lower(), str.strip().      *)
(***************************************************************************)
Digits == {"0", "1", "2", "3", "4", "5", "6", "7", "8", "9"}

DigitVal(c) ==
    CASE c = "0" -> 0 [] c = "1" -> 1 [] c = "2" -> 2 [] c = "3" -> 3
      [] c = "4" -> 4 [] c = "5" -> 5 [] c = "6" -> 6 [] c = "7" -> 7
      [] c = "8" -> 8 [] OTHER -> 9

IsSpace(c) == c \in {" ", "\n", "\t"}

RECURSIVE LStrip(_)
LStrip(cs) ==
    IF cs # <<>> /\ IsSpace(Head(cs)) THEN LStrip(Tail(cs)) ELSE cs

RECURSIVE RStrip(_)
RStrip(cs) ==
    IF cs # <<>> /\ IsSpace(cs[Len(cs)])
    THEN RStrip(SubSeq(cs, 1, Len(cs) - 1))
    ELSE cs

\* str.strip()
Strip(cs) == RStrip(LStrip(cs))

LowerChar(c) ==
    CASE c = "T" -> "t" [] c = "R" -> "r" [] c = "U" -> "u" [] c = "E" -> "e"
      [] c = "Y" -> "y" [] c = "S" -> "s" [] c = "O" -> "o" [] c = "N" -> "n"
      [] OTHER -> c

\* A faulty variant, to show the property depends on this step: no case
\* folding.
Lower_Identity(cs) == cs

\* str.lower()
Lower(cs) == [i \in 1..Len(cs) |-> LowerChar(cs[i])]

RECURSIVE DigitsValue(_, _)
DigitsValue(cs, acc) ==
    IF cs = <<>> THEN acc
    ELSE DigitsValue(Tail(cs), acc * 10 + DigitVal(Head(cs)))

AllDigits(cs) == \A i \in 1..Len(cs) : cs[i] \in Digits

Failed == [ok |-> FALSE, n |-> 0]
Negated(r) == [ok |-> r.ok, n |-> 0 - r.n]

\* a number's text after its optional sign, and whether the sign is "-"
Unsigned(t) == IF t # <<>> /\ Head(t) \in {"-", "+"} THEN Tail(t) ELSE t
IsNegative(t) == t # <<>> /\ Head(t) = "-"

UnsignedInt(body) ==
    IF body = <<>> \/ ~AllDigits(body) THEN Failed
    ELSE [ok |-> TRUE, n |-> DigitsValue(body, 0)]

\* int(str): surrounding whitespace, an optional sign, then digits only.
ParseInt(cs) ==
    IF IsNegative(Strip(cs)) THEN Negated(UnsignedInt(Unsigned(Strip(cs))))
    ELSE UnsignedInt(Unsigned(Strip(cs)))

\* the position of the decimal point, or past the end when there is none
DotAt(body) ==
    IF \E i \in 1..Len(body) : body[i] = "."
    THEN CHOOSE i \in 1..Len(body) : body[i] = "."
    ELSE Len(body) + 1

\* the digits before and after the point, as hundredths
FloatOf(whole, frac) ==
    IF whole \o frac = <<>> \/ Len(frac) > 2 \/ ~AllDigits(whole) \/ ~AllDigits(frac)
    THEN Failed
    ELSE [ok |-> TRUE,
          n |-> DigitsValue(whole, 0) * 100
                + (IF Len(frac) = 1 THEN 10 ELSE 1) * DigitsValue(frac, 0)]

UnsignedFloat(body) ==
    FloatOf(SubSeq(body, 1, DotAt(body) - 1), SubSeq(body, DotAt(body) + 1, Len(body)))

\* float(str): surrounding whitespace, an optional sign, digits, and at most
\* two decimals after a point; the result is in hundredths.
ParseFloat(cs) ==
    IF IsNegative(Strip(cs)) THEN Negated(UnsignedFloat(Unsigned(Strip(cs))))
    ELSE UnsignedFloat(Unsigned(Strip(cs)))

(***************************************************************************)
(* config.py: the parameter registry.                                      *)
(***************************************************************************)
DEFAULT_N_GPU_LAYERS == -1
DEFAULT_N_CTX == 2048
DEFAULT_N_THREADS == 8

IntDef(d, lo, hi) ==
    [type |-> "integer", default |-> IntV(d),
     hasMin |-> TRUE, min |-> lo, hasMax |-> TRUE, max |-> hi]
\* default and bounds of a float definition are in hundredths
FloatDef(d, lo, hi) ==
    [type |-> "float", default |-> FloatV(d),
     hasMin |-> TRUE, min |-> lo, hasMax |-> TRUE, max |-> hi]
BoolDef(d) ==
    [type |-> "boolean", default |-> BoolV(d),
     hasMin |-> FALSE, min |-> 0, hasMax |-> FALSE, max |-> 0]

GLOBAL_LOADING_PARAMETERS ==
    [n_gpu_layers |-> IntDef(DEFAULT_N_GPU_LAYERS, -1, 100),
     n_threads |-> IntDef(DEFAULT_N_THREADS, 1, 32),
     use_mlock |-> BoolDef(TRUE),
     use_mmap |-> BoolDef(TRUE),
     f16_kv |-> BoolDef(TRUE)]

GLOBAL_INFERENCE_PARAMETERS ==
    [temperature |-> FloatDef(70, 0, 200),
     max_tokens |-> IntDef(300, 1, 4096),
     top_p |-> FloatDef(95, 0, 100),
     top_k |-> IntDef(40, 1, 100),
     repeat_penalty |-> FloatDef(110, 100, 200),
     min_p |-> FloatDef(5, 0, 100)]

\* the role markers of MODEL_ASSIGNMENTS, as characters
MainInputPrefix ==
    <<"\n", "#", "#", "#", " ", "I", "n", "s", "t", "r", "u",
      "c", "t", "i", "o", "n", ":", "\n">>

MainAssistantPrefix ==
    <<"\n", "#", "#", "#", " ", "R", "e", "s", "p", "o", "n",
      "s", "e", ":", "\n">>

ImStartSystem ==
    <<"<", "|", "i", "m", "_", "s", "t", "a", "r", "t", "|", ">",
      "s", "y", "s", "t", "e", "m", "\n">>

ImStartUser ==
    <<"<", "|", "i", "m", "_", "s", "t", "a", "r", "t", "|", ">",
      "u", "s", "e", "r", "\n">>

ImStartAssistant ==
    <<"<", "|", "i", "m", "_", "s", "t", "a", "r", "t", "|", ">",
      "a", "s", "s", "i", "s", "t", "a", "n", "t",
      "\n">>

ImEnd ==
    <<"<", "|", "i", "m", "_", "e", "n", "d", "|", ">", "\n">>

\* MODEL_ASSIGNMENTS: per model key, its name, the role markers of
\* inference_params, its loading_params definitions and default_params.
MODEL_ASSIGNMENTS ==
    [MyMainLLM |->
        [name |-> "kunoichi",
         max_context_window |-> 8192,
         inference_params |->
             [pre_prompt_prefix |-> <<>>, pre_prompt_suffix |-> <<>>,
              input_prefix |-> MainInputPrefix, input_suffix |-> <<>>,
              assistant_prefix |-> MainAssistantPrefix, assistant_suffix |-> <<>>],
         loading_params |-> [n_ctx |-> IntDef(DEFAULT_N_CTX, 512, 8192)],
         default_params |-> [temperature |-> FloatV(70), max_tokens |-> IntV(300),
                             top_p |-> FloatV(95)]],
     MySecondLLM |->
        [name |-> "alphamonarch",
         max_context_window |-> 8192,
         inference_params |->
             [pre_prompt_prefix |-> ImStartSystem, pre_prompt_suffix |-> ImEnd,
              input_prefix |-> ImStartUser, input_suffix |-> ImEnd,
              assistant_prefix |-> ImStartAssistant, assistant_suffix |-> ImEnd],
         loading_params |-> [n_ctx |-> IntDef(DEFAULT_N_CTX, 512, 8192)],
         default_params |-> [temperature |-> FloatV(80), max_tokens |-> IntV(300),
                             top_p |-> FloatV(95), top_k |-> IntV(40),
                             min_p |-> FloatV(5), repeat_penalty |-> FloatV(110)]]]

KnownModels == DOMAIN MODEL_ASSIGNMENTS

\* bool(value)
Truthy(v) ==
    CASE IsNum(v) -> v.n # 0
      [] v.kind = "nan" -> TRUE
      [] v.kind = "str" -> v.s # <<>>
      [] OTHER -> FALSE

TrueStrings == {<<"t", "r", "u", "e">>, <<"1">>, <<"y", "e", "s">>, <<"o", "n">>}

\* truncation toward zero of a number of hundredths
Trunc(h) == IF h >= 0 THEN h \div 100 ELSE 0 - ((0 - h) \div 100)

\* int(value)
ToInt(v) ==
    CASE v.kind \in {"int", "bool"} -> [ok |-> TRUE, n |-> v.n]
      [] v.kind = "float" -> [ok |-> TRUE, n |-> Trunc(v.n)]
      [] v.kind = "str" -> ParseInt(v.s)
      [] OTHER -> [ok |-> FALSE, n |-> 0]

\* float(value), in hundredths
ToFloat(v) ==
    CASE IsNum(v) -> [ok |-> TRUE, n |-> Hundredths(v)]
      [] v.kind = "str" -> ParseFloat(v.s)
      [] OTHER -> [ok |-> FALSE, n |-> 0]

\* float(value) is NaN: value is NaN, or a str that reads "nan" in any case,
\* with an optional sign and surrounding whitespace
IsNaN(value) ==
    \/ value.kind = "nan"
    \/ /\ value.kind = "str"
       /\ Lower(Unsigned(Strip(value.s))) = <<"n", "a", "n">>

\* lines 93-105: the type conversion; int(NaN) raises, float(NaN) is NaN
Coerce(value, param_type) ==
    IF param_type = "integer"
    THEN LET c == ToInt(value) IN [ok |-> c.ok, v |-> IntV(c.n)]
    ELSE IF param_type = "float"
    THEN IF IsNaN(value) THEN [ok |-> TRUE, v |-> NaNV]
         ELSE LET c == ToFloat(value) IN [ok |-> c.ok, v |-> FloatV(c.n)]
    ELSE [ok |-> FALSE, v |-> value]

\* A faulty variant, to show the property depends on this step: the bounds
\* themselves are rejected.
InRange_Exclusive(v, param_def) ==
    /\ ~(param_def.hasMin /\ v.n <= param_def.min)
    /\ ~(param_def.hasMax /\ v.n >= param_def.max)

\* lines 107-111: the range check; < and > are both false for NaN
InRange(v, param_def) ==
    \/ v.kind = "nan"
    \/ /\ ~(param_def.hasMin /\ v.n < param_def.min)
       /\ ~(param_def.hasMax /\ v.n > param_def.max)

\* validate_parameter: [ok, v]; ok = FALSE is the ValueError.
validate_parameter(value, param_def) ==
    IF param_def.type = "boolean"
    THEN [ok |-> TRUE,
          v |-> IF value.kind = "str"
                THEN BoolV(Lower(value.s) \in TrueStrings)
                ELSE BoolV(Truthy(value))]
    ELSE LET c == Coerce(value, param_def.type)
         IN  IF c.ok /\ InRange(c.v, param_def)
             THEN [ok |-> TRUE, v |-> c.v]
             ELSE [ok |-> FALSE, v |-> value]

get_loading_parameter_defaults ==
    [k \in DOMAIN GLOBAL_LOADING_PARAMETERS |-> GLOBAL_LOADING_PARAMETERS[k].default]

\* get_inference_parameter_defaults(model_name): the model's default_params
\* are applied when model_name is a key of MODEL_ASSIGNMENTS.
get_inference_parameter_defaults(model_name) ==
    LET global == [k \in DOMAIN GLOBAL_INFERENCE_PARAMETERS |->
                      GLOBAL_INFERENCE_PARAMETERS[k].default]
    IN  IF model_name \in KnownModels
        THEN DictUpdate(global, MODEL_ASSIGNMENTS[model_name].default_params)
        ELSE global

(***************************************************************************)
(* llm_manager.py: LLMManager.Load up to the engine construction.          *)
(***************************************************************************)
\* lines 74-84: defaults, model-specific defaults, then the caller's overrides
final_loading_params(model_name, loading_params) ==
    LET specific == MODEL_ASSIGNMENTS[model_name].loading_params
        withModel == DictUpdate(get_loading_parameter_defaults,
                                [k \in DOMAIN specific |-> specific[k].default])
    IN  IF ~loading_params.isNone /\ DOMAIN loading_params.kv # {}
        THEN DictUpdate(withModel, loading_params.kv)
        ELSE withModel

\* lines 90-99: the definition a name is validated against, global first,
\* for a model whose entry carries the registry specific
LoadingDefIn(specific, k) ==
    IF k \in DOMAIN GLOBAL_LOADING_PARAMETERS
    THEN GLOBAL_LOADING_PARAMETERS[k]
    ELSE specific[k]

\* lines 90-103: the same for a model of the shipped MODEL_ASSIGNMENTS
LoadingDef(model_name, k) ==
    LoadingDefIn(MODEL_ASSIGNMENTS[model_name].loading_params, k)

\* lines 90-103: one pass of the validation loop, for the value of one name
ValidateLoading(specific, k, value) ==
    IF k \in DOMAIN GLOBAL_LOADING_PARAMETERS \cup DOMAIN specific
    THEN validate_parameter(value, LoadingDefIn(specific, k))
    ELSE [ok |-> TRUE, v |-> value]

IsRegistered(model_name, k) ==
    \/ k \in DOMAIN GLOBAL_LOADING_PARAMETERS
    \/ k \in DOMAIN MODEL_ASSIGNMENTS[model_name].loading_params

\* A faulty variant, to show the property depends on this step: a value that
\* fails validation is replaced by the default of its definition.
LoadResolve_SkipInvalid(model_name, loading_params) ==
    IF model_name \notin KnownModels
    THEN [err |-> "unknown_model", params |-> EmptyDict]
    ELSE [err |-> "none",
          params |-> [k \in DOMAIN final_loading_params(model_name, loading_params) |->
                        IF validate_parameter(
                               final_loading_params(model_name, loading_params)[k],
                               LoadingDef(model_name, k)).ok
                        THEN validate_parameter(
                                 final_loading_params(model_name, loading_params)[k],
                                 LoadingDef(model_name, k)).v
                        ELSE LoadingDef(model_name, k).default]]

\* lines 69-105: "unknown_model", "validation" or no error and the validated set
LoadResolve(model_name, loading_params) ==
    IF model_name \notin KnownModels
    THEN [err |-> "unknown_model", params |-> EmptyDict]
    ELSE LET final == final_loading_params(model_name, loading_params)
             bad == {k \in DOMAIN final :
                        /\ IsRegistered(model_name, k)
                        /\ ~validate_parameter(final[k], LoadingDef(model_name, k)).ok}
         IN  IF bad # {}
             THEN [err |-> "validation", params |-> EmptyDict]
             ELSE [err |-> "none",
                   params |-> [k \in DOMAIN final |->
                                 IF IsRegistered(model_name, k)
                                 THEN validate_parameter(final[k], LoadingDef(model_name, k)).v
                                 ELSE final[k]]]

\* validate_inference_parameters: [ok, params]
validate_inference_parameters(params) ==
    LET known == DOMAIN params \cap DOMAIN GLOBAL_INFERENCE_PARAMETERS
        bad == {k \in known :
                   ~validate_parameter(params[k], GLOBAL_INFERENCE_PARAMETERS[k]).ok}
    IN  IF bad # {}
        THEN [ok |-> FALSE, params |-> EmptyDict]
        ELSE [ok |-> TRUE,
              params |-> [k \in DOMAIN params |->
                            IF k \in known
                            THEN validate_parameter(params[k],
                                                    GLOBAL_INFERENCE_PARAMETERS[k]).v
                            ELSE params[k]]]

\* generate_raw / generate_stream_raw, lines 171-180 and 229-239: the defaults
\* of the manager's config.name, the call's overrides, then validation
ResolveInference(model_name, kwargs) ==
    validate_inference_parameters(
        DictUpdate(get_inference_parameter_defaults(MODEL_ASSIGNMENTS[model_name].name),
                   kwargs))

(***************************************************************************)
(* llm_manager.py: the templated composition of the prompt.                *)
(***************************************************************************)
\* LLMManager.wrap lines 293-302, for the roles format_prompt uses
wrap(model_name, role, content) ==
    IF role = "system"
    THEN MODEL_ASSIGNMENTS[model_name].inference_params.pre_prompt_prefix
         \o content
         \o MODEL_ASSIGNMENTS[model_name].inference_params.pre_prompt_suffix
    ELSE MODEL_ASSIGNMENTS[model_name].inference_params.input_prefix
         \o content
         \o MODEL_ASSIGNMENTS[model_name].inference_params.input_suffix

\* LLMManager.wrap_multiple lines 304-309; messages is the dict in insertion
\* order, a sequence of <<role, content>>
RECURSIVE wrap_multiple(_, _)
wrap_multiple(model_name, messages) ==
    IF messages = <<>> THEN <<>>
    ELSE wrap(model_name, Head(messages)[1], Head(messages)[2])
         \o wrap_multiple(model_name, Tail(messages))

\* A faulty variant, to show the property depends on this step: the system
\* message is added also when the system prompt is empty.
format_prompt_AlwaysSystem(model_name, prompt, system_prompt) ==
    wrap_multiple(model_name, << <<"system", system_prompt>>, <<"user", prompt>> >>)

\* LLMManager.format_prompt lines 285-291
format_prompt(model_name, prompt, system_prompt) ==
    wrap_multiple(model_name,
                  (IF system_prompt # <<>> THEN << <<"system", system_prompt>> >>
                   ELSE <<>>)
                  \o << <<"user", prompt>> >>)

(***************************************************************************)
(* llm_manager.py: what a generation returns of the engine's text.         *)
(***************************************************************************)
StartsWith(s, p) == Len(p) <= Len(s) /\ SubSeq(s, 1, Len(p)) = p
EndsWith(s, p) == Len(p) <= Len(s) /\ SubSeq(s, Len(s) - Len(p) + 1, Len(s)) = p

\* _parse_response lines 430-432: a leading assistant prefix is removed
RemovePrefix(s, p) ==
    IF p # <<>> /\ StartsWith(s, p) THEN SubSeq(s, Len(p) + 1, Len(s)) ELSE s

\* _parse_response lines 435-436: a trailing assistant suffix is removed
RemoveSuffix(s, p) ==
    IF p # <<>> /\ EndsWith(s, p) THEN SubSeq(s, 1, Len(s) - Len(p)) ELSE s

\* LLMManager._parse_response for the manager of a model
parse_response(model_name, response) ==
    Strip(RemoveSuffix(
              RemovePrefix(response,
                           MODEL_ASSIGNMENTS[model_name].inference_params.assistant_prefix),
              MODEL_ASSIGNMENTS[model_name].inference_params.assistant_suffix))

\* the text of a streaming chunk: generate_stream_raw line 272 for the raw
\* composition, generate_stream lines 414-415 for the templated one
StreamText(strategy, model_name, collected_text) ==
    IF strategy = "raw" THEN Strip(collected_text)
    ELSE parse_response(model_name, collected_text)

\* A faulty variant, to show the property depends on this step: the raw
\* single mode returns the engine's text as it is.
SingleText_Unstripped(strategy, model_name, raw_response) ==
    IF strategy = "raw" THEN raw_response
    ELSE parse_response(model_name, raw_response)

\* the text single mode returns: generate_raw line 213 for the raw
\* composition, generate line 363 for the templated one
SingleText(strategy, model_name, raw_response) ==
    IF strategy = "raw" THEN Strip(raw_response)
    ELSE parse_response(model_name, raw_response)

(***************************************************************************)
(* server.py: the process-wide slot and the request handlers.  Flask's     *)
(* development server runs each request in its own thread, and no handler  *)
(* takes a lock: a handler is a sequence of steps, one per access to the   *)
(* globals, and the steps of two handlers interleave.                      *)
(***************************************************************************)
Threads == {"t1", "t2"}

\* Python's None, where a model name is expected
None == "None"

VARIABLES
    llm_manager,             \* server.py:70, 0 is None, h > 0 is engines[h]
    current_model,           \* server.py:71
    current_loading_params,  \* server.py:72
    engines,                 \* every engine constructed so far
    pc,                      \* where each handler is
    req,                     \* the request a handler serves
    loc,                     \* the handler's local variables
    frames,                  \* the frames a streaming response has emitted
    resp,                    \* the JSON response of a handler
    nreq,                    \* requests started so far
    pre,                     \* the slot when the handler's request started
    lastLoad,                \* the pair and handle of the last acquisition that
                             \* stored a handle, cleared by a release or a failure
    call,                    \* a call of config.validate_parameter on its own:
                             \* its arguments and, once it returned, its outcome
    gen                      \* one engine output on its own, driven through
                             \* the streaming and through the single mode

serverVars == <<llm_manager, current_model, current_loading_params, engines, pc,
                req, loc, frames, resp, nreq, pre, lastLoad>>

vars == <<serverVars, call, gen>>

slotVars == <<llm_manager, current_model, current_loading_params>>

\* rejected: since the last acquisition that stored a handle, a load request
\* was rejected for a loading parameter
NoLoad == [set |-> FALSE, m |-> None, p |-> NoneDict, h |-> 0, rejected |-> FALSE]

\* textLen is len(text) of a count_tokens request: its text matters by its
\* length only
NoRequest ==
    [kind |-> "none", hasModel |-> FALSE, model |-> None, body |-> EmptyDict,
     stream |-> FALSE, prompt |-> <<>>, textLen |-> 0]

LocInit ==
    [model_name |-> None, loading_params |-> NoneDict, validated |-> EmptyDict,
     mgr |-> 0, manager |-> 0, rel |-> 0, inference_params |-> EmptyDict,
     collected |-> <<>>, partial_response |-> <<>>, nchunks |-> 0,
     tokenizer |-> "none"]

NoUsage == [token_count |-> 0, max_context |-> 0, remaining_tokens |-> 0]

RespInit ==
    [code |-> 0, status |-> "", err |-> "", loaded |-> FALSE, model |-> None,
     params |-> NoneDict, text |-> <<>>, usage |-> NoUsage]

Snapshot ==
    [h |-> llm_manager, m |-> current_model, p |-> current_loading_params,
     lastLoad |-> lastLoad]

NoSnapshot == [h |-> 0, m |-> None, p |-> NoneDict, lastLoad |-> NoLoad]

\* no call of validate_parameter outside a request
NoCall == [stage |-> "none", value |-> NullV, def |-> BoolDef(TRUE),
           name |-> "", specific |-> MODEL_ASSIGNMENTS["MyMainLLM"].loading_params,
           out |-> [ok |-> FALSE, v |-> NullV]]

\* the server after start-up: nothing loaded, no request
ServerInit ==
    /\ llm_manager = 0
    /\ current_model = None
    /\ current_loading_params = NoneDict
    /\ engines = <<>>
    /\ pc = [t \in Threads |-> "idle"]
    /\ req = [t \in Threads |-> NoRequest]
    /\ loc = [t \in Threads |-> LocInit]
    /\ frames = [t \in Threads |-> <<>>]
    /\ resp = [t \in Threads |-> RespInit]
    /\ nreq = 0
    /\ pre = [t \in Threads |-> NoSnapshot]
    /\ lastLoad = NoLoad

\* no generation outside a request
NoGen ==
    [stage |-> "none", strategy |-> "raw", model |-> "MyMainLLM", chunks |-> <<>>,
     pos |-> 0, collected |-> <<>>, partial_response |-> <<>>, frames |-> <<>>,
     answered |-> FALSE, response |-> <<>>,
     prompt |-> <<>>, system_prompt |-> <<>>, formatted_prompt |-> <<>>]

Init == ServerInit /\ call = NoCall /\ gen = NoGen

(***************************************************************************)
(* Frames and responses.                                                   *)
(***************************************************************************)
Frame(status, text, err) == [status |-> status, text |-> text, err |-> err]

IsStream(t) == req[t].kind = "query" /\ req[t].stream

ErrorPrefix == <<"E", "r", "r", "o", "r", ":", " ">>

\* An exception reaches the handler's except clause: query_llm_stream lines
\* 125-128, query_llm lines 143-145 (folded into a 200 response),
\* load_model lines 308-310.
Raise(t, err) ==
    /\ pc' = [pc EXCEPT ![t] = "done"]
    /\ frames' = [frames EXCEPT ![t] =
                    IF IsStream(t) THEN Append(@, Frame("error", <<>>, err)) ELSE @]
    /\ resp' = [resp EXCEPT ![t] =
                  IF IsStream(t) THEN [RespInit EXCEPT !.code = 200, !.status = "stream"]
                  ELSE IF req[t].kind = "query"
                  THEN [RespInit EXCEPT !.code = 200, !.status = "response",
                                        !.err = err, !.text = ErrorPrefix \o <<err>>]
                  ELSE [RespInit EXCEPT !.code = 500, !.status = "error", !.err = err]]

(***************************************************************************)
(* Starting a request.                                                     *)
(***************************************************************************)
Begin(t, r) ==
    /\ pc[t] = "idle"
    /\ nreq' = nreq + 1
    /\ req' = [req EXCEPT ![t] = r]
    /\ pre' = [pre EXCEPT ![t] = Snapshot]

\* load_model lines 282-292: the loading parameters taken from the body
ExtractLoading(body, model_name) ==
    LET names == DOMAIN GLOBAL_LOADING_PARAMETERS
                 \cup (IF model_name \in KnownModels
                       THEN DOMAIN MODEL_ASSIGNMENTS[model_name].loading_params
                       ELSE {})
    IN  [k \in DOMAIN body \cap names |-> body[k]]

\* A faulty variant, to show the property depends on this step: every
\* override is passed on as it came.
ExtractInference_KeepAll(body) ==
    [k \in DOMAIN body \cap DOMAIN GLOBAL_INFERENCE_PARAMETERS |-> body[k]]

\* process_query lines 224-236: the inference overrides that validate
ExtractInference(body) ==
    LET kept == {k \in DOMAIN body \cap DOMAIN GLOBAL_INFERENCE_PARAMETERS :
                    validate_parameter(body[k], GLOBAL_INFERENCE_PARAMETERS[k]).ok}
    IN  [k \in kept |-> validate_parameter(body[k], GLOBAL_INFERENCE_PARAMETERS[k]).v]

\* load_model lines 276-297, up to the call of get_llm_manager
StartLoad(t, r) ==
    /\ r.kind = "load"
    /\ Begin(t, r)
    /\ LET model_name == IF r.hasModel THEN r.model ELSE "MyMainLLM"
       IN  loc' = [loc EXCEPT ![t] =
                     [LocInit EXCEPT !.model_name = model_name,
                                     !.loading_params =
                                         Dict(ExtractLoading(r.body, model_name))]]
    /\ pc' = [pc EXCEPT ![t] = "g_cmp"]
    /\ UNCHANGED <<slotVars, engines, frames, resp, lastLoad>>

\* unload_model line 313-317
StartUnload(t, r) ==
    /\ r.kind = "unload"
    /\ Begin(t, r)
    /\ pc' = [pc EXCEPT ![t] = "u_chk"]
    /\ UNCHANGED <<slotVars, engines, loc, frames, resp, lastLoad>>

\* model_status lines 347-352: what status reports of the slot
StatusReport ==
    [loaded |-> llm_manager # 0,
     current_model |-> current_model,
     loading_parameters |-> current_loading_params]

\* model_status lines 338-352
StartStatus(t, r) ==
    /\ r.kind = "status"
    /\ Begin(t, r)
    /\ pc' = [pc EXCEPT ![t] = "done"]
    /\ resp' = [resp EXCEPT ![t] =
                  [RespInit EXCEPT !.code = 200, !.status = "status",
                                   !.loaded = StatusReport.loaded,
                                   !.model = StatusReport.current_model,
                                   !.params = StatusReport.loading_parameters]]
    /\ UNCHANGED <<slotVars, engines, loc, frames, lastLoad>>

\* A faulty variant, to show the property depends on this step: the prompt
\* is not tested before the model is acquired.
StartQuery_NoPromptTest(t, r) ==
    /\ r.kind = "query"
    /\ Begin(t, r)
    /\ loc' = [loc EXCEPT ![t] =
                 [LocInit EXCEPT !.model_name =
                                     IF r.hasModel THEN r.model ELSE "MyMainLLM",
                                 !.inference_params = ExtractInference(r.body)]]
    /\ pc' = [pc EXCEPT ![t] = "q_read"]
    /\ UNCHANGED <<slotVars, engines, frames, resp, lastLoad>>

\* process_query lines 216-263, up to the call of query_llm_stream / query_llm
StartQuery(t, r) ==
    /\ r.kind = "query"
    /\ Begin(t, r)
    /\ LET model_name ==
               IF r.hasModel THEN r.model
               ELSE IF current_model # None THEN current_model ELSE "MyMainLLM"
       IN  loc' = [loc EXCEPT ![t] =
                     [LocInit EXCEPT !.model_name = model_name,
                                     !.inference_params = ExtractInference(r.body)]]
    /\ IF r.prompt = <<>>
       THEN /\ pc' = [pc EXCEPT ![t] = "done"]
            /\ resp' = [resp EXCEPT ![t] =
                          [RespInit EXCEPT !.code = 400, !.status = "error",
                                           !.err = "no_prompt"]]
       ELSE /\ pc' = [pc EXCEPT ![t] = "q_read"]
            /\ resp' = resp
    /\ UNCHANGED <<slotVars, engines, frames, lastLoad>>

\* A faulty variant, to show the property depends on this step: the query
\* asks for the model with no loading parameters of its own.
Q_read_NoParams(t) ==
    /\ pc[t] = "q_read"
    /\ loc' = [loc EXCEPT ![t].loading_params = Dict(EmptyDict)]
    /\ pc' = [pc EXCEPT ![t] = "g_cmp"]
    /\ UNCHANGED <<slotVars, engines, req, frames, resp, nreq, pre, lastLoad>>

\* query_llm_stream line 96, query_llm line 134: the argument
\* current_loading_params is read before get_llm_manager is entered
Q_read(t) ==
    /\ pc[t] = "q_read"
    /\ loc' = [loc EXCEPT ![t].loading_params = current_loading_params]
    /\ pc' = [pc EXCEPT ![t] = "g_cmp"]
    /\ UNCHANGED <<slotVars, engines, req, frames, resp, nreq, pre, lastLoad>>

(***************************************************************************)
(* get_llm_manager, server.py lines 74-90.                                 *)
(***************************************************************************)
\* A faulty variant, to show the property depends on this step: the parameters are compared by reference (a fresh dict never is
\* the stored one), so every request to a populated slot swaps.
NeedsSwap_ByReference(h, cm, clp, model_name, loading_params) ==
    h # 0

\* A faulty variant, to show the property depends on this step: only the identity is compared, as in the server without loading
\* parameters.
NeedsSwap_ModelOnly(h, cm, clp, model_name, loading_params) ==
    h # 0 /\ cm # model_name

\* lines 79-80: the slot holds a handle for another model or other parameters
NeedsSwap(h, cm, clp, model_name, loading_params) ==
    /\ h # 0
    /\ (cm # model_name \/ ~DictEq(clp, loading_params))

G_cmp(t) ==
    /\ pc[t] = "g_cmp"
    /\ pc' = [pc EXCEPT ![t] =
                IF NeedsSwap(llm_manager, current_model, current_loading_params,
                             loc[t].model_name, loc[t].loading_params)
                THEN "g_rel" ELSE "g_chk"]
    /\ UNCHANGED <<slotVars, engines, req, loc, frames, resp, nreq, pre, lastLoad>>

\* line 82: llm_manager = None
G_rel(t) ==
    /\ pc[t] = "g_rel"
    /\ llm_manager' = 0
    /\ loc' = [loc EXCEPT ![t].rel = @ + 1]
    /\ lastLoad' = NoLoad
    /\ pc' = [pc EXCEPT ![t] = "g_chk"]
    /\ UNCHANGED <<current_model, current_loading_params, engines, req, frames,
                   resp, nreq, pre>>

\* line 84, and LLMManager.Load lines 69-105 when the slot is empty
G_chk(t) ==
    /\ pc[t] = "g_chk"
    /\ IF llm_manager # 0
       THEN /\ pc' = [pc EXCEPT ![t] = "g_ret"]
            /\ UNCHANGED <<loc, frames, resp, lastLoad>>
       ELSE LET r == LoadResolve(loc[t].model_name, loc[t].loading_params)
            IN  IF r.err # "none"
                THEN /\ Raise(t, r.err)
                     /\ lastLoad' = [NoLoad EXCEPT !.rejected =
                                        (r.err = "validation" /\ req[t].kind = "load")]
                     /\ loc' = loc
                ELSE /\ pc' = [pc EXCEPT ![t] = "g_con"]
                     /\ loc' = [loc EXCEPT ![t].validated = r.params]
                     /\ UNCHANGED <<frames, resp, lastLoad>>
    /\ UNCHANGED <<slotVars, engines, req, nreq, pre>>

\* LLMManager.Load lines 116-131: the engine is constructed, or it raises
G_con(t) ==
    /\ pc[t] = "g_con"
    /\ \E ok \in BOOLEAN :
          IF ok
          THEN /\ engines' = Append(engines, [model |-> loc[t].model_name,
                                              params |-> loc[t].validated,
                                              requested |-> loc[t].loading_params])
               /\ loc' = [loc EXCEPT ![t].mgr = Len(engines) + 1]
               /\ pc' = [pc EXCEPT ![t] = "g_set"]
               /\ UNCHANGED <<frames, resp, lastLoad>>
          ELSE /\ Raise(t, "load_error")
               /\ lastLoad' = NoLoad
               /\ UNCHANGED <<engines, loc>>
    /\ UNCHANGED <<slotVars, req, nreq, pre>>

\* line 86: llm_manager = <the new manager>
G_set(t) ==
    /\ pc[t] = "g_set"
    /\ llm_manager' = loc[t].mgr
    /\ pc' = [pc EXCEPT ![t] = "g_setm"]
    /\ UNCHANGED <<current_model, current_loading_params, engines, req, loc,
                   frames, resp, nreq, pre, lastLoad>>

\* line 87: current_model = model_name
G_setm(t) ==
    /\ pc[t] = "g_setm"
    /\ current_model' = loc[t].model_name
    /\ pc' = [pc EXCEPT ![t] = "g_setp"]
    /\ UNCHANGED <<llm_manager, current_loading_params, engines, req, loc,
                   frames, resp, nreq, pre, lastLoad>>

\* A faulty variant, to show the property depends on this step: the
\* parameters of the new handle are not recorded.
G_setp_Skip(t) ==
    /\ pc[t] = "g_setp"
    /\ pc' = [pc EXCEPT ![t] = "g_ret"]
    /\ UNCHANGED <<slotVars, engines, req, loc, frames, resp, nreq, pre, lastLoad>>

\* line 88: current_loading_params = loading_params
G_setp(t) ==
    /\ pc[t] = "g_setp"
    /\ current_loading_params' = loc[t].loading_params
    /\ lastLoad' = [set |-> TRUE, m |-> loc[t].model_name,
                    p |-> loc[t].loading_params, h |-> loc[t].mgr,
                    rejected |-> FALSE]
    /\ pc' = [pc EXCEPT ![t] = "g_ret"]
    /\ UNCHANGED <<llm_manager, current_model, engines, req, loc,
                   frames, resp, nreq, pre>>

\* line 90: return llm_manager, the global as it is now
G_ret(t) ==
    /\ pc[t] = "g_ret"
    /\ loc' = [loc EXCEPT ![t].manager = llm_manager]
    /\ pc' = [pc EXCEPT ![t] =
                IF req[t].kind = "load" THEN "l_resp"
                ELSE IF req[t].stream THEN "s_proc" ELSE "n_gen"]
    /\ UNCHANGED <<slotVars, engines, req, frames, resp, nreq, pre, lastLoad>>

\* load_model lines 299-307: manager.get_loading_parameters() and the response
L_resp(t) ==
    /\ pc[t] = "l_resp"
    /\ IF loc[t].manager = 0
       THEN Raise(t, "attribute_error")
       ELSE /\ pc' = [pc EXCEPT ![t] = "done"]
            /\ resp' = [resp EXCEPT ![t] =
                          [RespInit EXCEPT !.code = 200, !.status = "success",
                                           !.model = loc[t].model_name,
                                           !.params = Dict(engines[loc[t].manager].params)]]
            /\ frames' = frames
    /\ UNCHANGED <<slotVars, engines, req, loc, nreq, pre, lastLoad>>

(***************************************************************************)
(* unload_model, server.py lines 312-335.                                  *)
(***************************************************************************)
\* line 319
U_chk(t) ==
    /\ pc[t] = "u_chk"
    /\ IF llm_manager # 0
       THEN /\ pc' = [pc EXCEPT ![t] = "u_rel"]
            /\ resp' = resp
       ELSE /\ pc' = [pc EXCEPT ![t] = "done"]
            /\ resp' = [resp EXCEPT ![t] =
                          [RespInit EXCEPT !.code = 200, !.status = "success",
                                           !.err = "no_model_was_loaded"]]
    /\ UNCHANGED <<slotVars, engines, req, loc, frames, nreq, pre, lastLoad>>

\* lines 320-322
U_rel(t) ==
    /\ pc[t] = "u_rel"
    /\ llm_manager' = 0
    /\ loc' = [loc EXCEPT ![t].model_name = current_model, ![t].rel = @ + 1]
    /\ lastLoad' = NoLoad
    /\ pc' = [pc EXCEPT ![t] = "u_m"]
    /\ UNCHANGED <<current_model, current_loading_params, engines, req, frames,
                   resp, nreq, pre>>

\* A faulty variant, to show the property depends on this step: unload forgets to clear current_model.
U_m_Keep(t) ==
    /\ pc[t] = "u_m"
    /\ pc' = [pc EXCEPT ![t] = "u_p"]
    /\ UNCHANGED <<slotVars, engines, req, loc, frames, resp, nreq, pre, lastLoad>>

\* line 323
U_m(t) ==
    /\ pc[t] = "u_m"
    /\ current_model' = None
    /\ pc' = [pc EXCEPT ![t] = "u_p"]
    /\ UNCHANGED <<llm_manager, current_loading_params, engines, req, loc, frames,
                   resp, nreq, pre, lastLoad>>

\* lines 324-329
U_p(t) ==
    /\ pc[t] = "u_p"
    /\ current_loading_params' = NoneDict
    /\ pc' = [pc EXCEPT ![t] = "done"]
    /\ resp' = [resp EXCEPT ![t] =
                  [RespInit EXCEPT !.code = 200, !.status = "success",
                                   !.model = loc[t].model_name]]
    /\ UNCHANGED <<llm_manager, current_model, engines, req, loc, frames,
                   nreq, pre, lastLoad>>

(***************************************************************************)
(* query_llm_stream, server.py lines 93-128, driving                       *)
(* LLMManager.generate_stream_raw, llm_manager.py lines 219-279.           *)
(***************************************************************************)
Emit(t, f) == frames' = [frames EXCEPT ![t] = Append(@, f)]

StreamDone(t) ==
    /\ pc' = [pc EXCEPT ![t] = "done"]
    /\ resp' = [resp EXCEPT ![t] = [RespInit EXCEPT !.code = 200, !.status = "stream"]]

\* line 99: the processing frame
S_proc(t) ==
    /\ pc[t] = "s_proc"
    /\ Emit(t, Frame("processing", <<>>, ""))
    /\ pc' = [pc EXCEPT ![t] = "s_val"]
    /\ UNCHANGED <<slotVars, engines, req, loc, resp, nreq, pre, lastLoad>>

\* line 106 and generate_stream_raw lines 221-239
S_val(t) ==
    /\ pc[t] = "s_val"
    /\ IF loc[t].manager = 0
       THEN Raise(t, "attribute_error") /\ loc' = loc
       ELSE LET v == ResolveInference(engines[loc[t].manager].model,
                                      loc[t].inference_params)
            IN  IF ~v.ok
                THEN /\ Emit(t, Frame("error", <<>>, "validation"))
                     /\ StreamDone(t)
                     /\ loc' = loc
                ELSE /\ pc' = [pc EXCEPT ![t] = "s_gen"]
                     /\ loc' = [loc EXCEPT ![t].validated = v.params]
                     /\ UNCHANGED <<frames, resp>>
    /\ UNCHANGED <<slotVars, engines, req, nreq, pre, lastLoad>>

\* A faulty variant, to show the property depends on this step: the frame
\* carries the chunk's own token, not the accumulated text.
S_chunk_TokenOnly(t, tokens) ==
    /\ pc[t] = "s_gen"
    /\ loc[t].nchunks < MaxChunks
    /\ \E token \in tokens :
          /\ loc' = [loc EXCEPT ![t].collected = @ \o token,
                                ![t].partial_response = Strip(token),
                                ![t].nchunks = @ + 1]
          /\ Emit(t, Frame("generating", Strip(token), ""))
    /\ UNCHANGED <<slotVars, engines, pc, req, resp, nreq, pre, lastLoad>>

\* generate_stream_raw lines 258-273 and query_llm_stream lines 110-119
S_chunk(t, tokens) ==
    /\ pc[t] = "s_gen"
    /\ loc[t].nchunks < MaxChunks
    /\ \E token \in tokens :
          LET collected_text == loc[t].collected \o token
          IN  /\ loc' = [loc EXCEPT ![t].collected = collected_text,
                                    ![t].partial_response = Strip(collected_text),
                                    ![t].nchunks = @ + 1]
              /\ Emit(t, Frame("generating", Strip(collected_text), ""))
    /\ UNCHANGED <<slotVars, engines, pc, req, resp, nreq, pre, lastLoad>>

\* A faulty variant, to show the property depends on this step: the error frame is emitted without the return of line 113.
S_raise_NoReturn(t) ==
    /\ pc[t] = "s_gen"
    /\ ~\E i \in 1..Len(frames[t]) : frames[t][i].status = "error"
    /\ Emit(t, Frame("error", <<>>, "engine_error"))
    /\ UNCHANGED <<slotVars, engines, pc, req, loc, resp, nreq, pre, lastLoad>>

\* generate_stream_raw lines 275-279 and query_llm_stream lines 111-113
S_raise(t) ==
    /\ pc[t] = "s_gen"
    /\ Emit(t, Frame("error", <<>>, "engine_error"))
    /\ StreamDone(t)
    /\ UNCHANGED <<slotVars, engines, req, loc, nreq, pre, lastLoad>>

\* A faulty variant, to show the property depends on this step: the generator
\* returns after the last chunk without the complete frame.
S_end_Silent(t) ==
    /\ pc[t] = "s_gen"
    /\ StreamDone(t)
    /\ UNCHANGED <<slotVars, engines, req, loc, frames, nreq, pre, lastLoad>>

\* A faulty variant, to show the property depends on this step: the complete
\* frame carries the accumulated text as the engine produced it.
S_end_Accumulated(t) ==
    /\ pc[t] = "s_gen"
    /\ Emit(t, Frame("complete", loc[t].collected, ""))
    /\ StreamDone(t)
    /\ UNCHANGED <<slotVars, engines, req, loc, nreq, pre, lastLoad>>

\* query_llm_stream lines 121-123
S_end(t) ==
    /\ pc[t] = "s_gen"
    /\ Emit(t, Frame("complete", loc[t].partial_response, ""))
    /\ StreamDone(t)
    /\ UNCHANGED <<slotVars, engines, req, loc, nreq, pre, lastLoad>>

(***************************************************************************)
(* query_llm, server.py lines 131-145, calling LLMManager.generate_raw,    *)
(* llm_manager.py lines 161-217.                                           *)
(***************************************************************************)
\* the texts an engine can return: at most n tokens
RECURSIVE EngineTexts(_, _)
EngineTexts(tokens, n) ==
    IF n = 0 THEN {<<>>}
    ELSE EngineTexts(tokens, n - 1)
         \cup {x \o tk : x \in EngineTexts(tokens, n - 1), tk \in tokens}

\* A faulty variant, to show the property depends on this step: the engine's
\* exception is answered as a server error.
N_error_Propagate(t) ==
    /\ pc' = [pc EXCEPT ![t] = "done"]
    /\ resp' = [resp EXCEPT ![t] =
                  [RespInit EXCEPT !.code = 500, !.status = "error",
                                   !.err = "engine_error"]]
    /\ frames' = frames

\* the engine raised inside generate_raw: lines 215-217 return the message
\* as the response text
N_error(t) ==
    /\ pc' = [pc EXCEPT ![t] = "done"]
    /\ resp' = [resp EXCEPT ![t] =
                  [RespInit EXCEPT !.code = 200, !.status = "response",
                                   !.err = "engine_error",
                                   !.text = ErrorPrefix \o <<"engine_error">>]]
    /\ frames' = frames

N_gen(t, tokens) ==
    /\ pc[t] = "n_gen"
    /\ IF loc[t].manager = 0
       THEN Raise(t, "attribute_error") /\ loc' = loc
       ELSE LET v == ResolveInference(engines[loc[t].manager].model,
                                      loc[t].inference_params)
            IN  IF ~v.ok
                THEN Raise(t, "validation") /\ loc' = loc
                ELSE /\ loc' = [loc EXCEPT ![t].validated = v.params]
                     /\ \/ N_error(t)
                        \/ \E raw_response \in EngineTexts(tokens, MaxChunks) :
                              /\ pc' = [pc EXCEPT ![t] = "done"]
                              /\ resp' = [resp EXCEPT ![t] =
                                            [RespInit EXCEPT !.code = 200,
                                                             !.status = "response",
                                                             !.text = Strip(raw_response)]]
                              /\ frames' = frames
    /\ UNCHANGED <<slotVars, engines, req, nreq, pre, lastLoad>>

(***************************************************************************)
(* count_tokens, server.py lines 354-396, with LLMManager.count_tokens and *)
(* LLMManager.get_context_usage, llm_manager.py lines 445-475.  The        *)
(* handler writes no global.  usage_percentage is left out.                *)
(***************************************************************************)
\* A faulty variant, to show the property depends on this step: four
\* characters per token.
Estimate_Quarter(n) == n \div 4

\* llm_manager.py lines 447-450 and 459: len(text) // 3
Estimate(n) == n \div 3

\* what the engine's tokenizer can count for a text of n characters
TokenizerCounts(n) == {n \div 4, n}

\* A faulty variant, to show the property depends on this step: the
\* remaining tokens never go below zero.
ContextUsage_Clamped(token_count, max_context) ==
    [token_count |-> token_count, max_context |-> max_context,
     remaining_tokens |-> IF max_context < token_count THEN 0
                          ELSE max_context - token_count]

\* get_context_usage, llm_manager.py lines 470-475
ContextUsage(token_count, max_context) ==
    [token_count |-> token_count, max_context |-> max_context,
     remaining_tokens |-> max_context - token_count]

\* server.py lines 378-387: the same figures for a model that is not loaded
ManualUsage(token_count, max_context) ==
    [token_count |-> token_count, max_context |-> max_context,
     remaining_tokens |-> max_context - token_count]

CountDone(t, usage) ==
    /\ pc' = [pc EXCEPT ![t] = "done"]
    /\ resp' = [resp EXCEPT ![t] =
                  [RespInit EXCEPT !.code = 200, !.status = "count",
                                   !.model = loc[t].model_name, !.usage = usage]]

\* lines 356-362
StartCount(t, r) ==
    /\ r.kind = "count"
    /\ Begin(t, r)
    /\ loc' = [loc EXCEPT ![t] =
                 [LocInit EXCEPT !.model_name =
                     IF r.hasModel THEN r.model
                     ELSE IF current_model # None THEN current_model ELSE "MyMainLLM"]]
    /\ IF r.textLen = 0
       THEN /\ pc' = [pc EXCEPT ![t] = "done"]
            /\ resp' = [resp EXCEPT ![t] =
                          [RespInit EXCEPT !.code = 400, !.status = "error",
                                           !.err = "no_text"]]
       ELSE /\ pc' = [pc EXCEPT ![t] = "c_chk"]
            /\ resp' = resp
    /\ UNCHANGED <<slotVars, engines, frames, lastLoad>>

\* lines 365-366 when the requested model is the loaded one, else lines
\* 369-387: a manager without an engine estimates, and max_context is the
\* max_context_window of the model's entry in MODEL_ASSIGNMENTS
C_chk(t) ==
    /\ pc[t] = "c_chk"
    /\ IF llm_manager # 0 /\ current_model = loc[t].model_name
       THEN /\ loc' = [loc EXCEPT ![t].manager = llm_manager]
            /\ pc' = [pc EXCEPT ![t] = "c_use"]
            /\ UNCHANGED <<frames, resp>>
       ELSE /\ loc' = loc
            /\ IF loc[t].model_name \notin KnownModels
               THEN Raise(t, "key_error")
               ELSE /\ CountDone(t, ManualUsage(
                            Estimate(req[t].textLen),
                            MODEL_ASSIGNMENTS[loc[t].model_name].max_context_window))
                    /\ frames' = frames
    /\ UNCHANGED <<slotVars, engines, req, nreq, pre, lastLoad>>

\* A faulty variant, to show the property depends on this step: a failure of
\* the tokenizer is not caught and the handler answers with its error.
C_use_Propagate(t) ==
    /\ pc[t] = "c_use"
    /\ \/ /\ \E token_count \in TokenizerCounts(req[t].textLen) :
                CountDone(t, ContextUsage(token_count,
                                          engines[loc[t].manager].params["n_ctx"].n))
          /\ loc' = [loc EXCEPT ![t].tokenizer = "counted"]
       \/ /\ Raise(t, "tokenizer_error")
          /\ loc' = [loc EXCEPT ![t].tokenizer = "raised"]
    /\ UNCHANGED <<slotVars, engines, req, frames, nreq, pre, lastLoad>>

\* lines 367-368: get_context_usage with the engine's tokenizer, or the
\* estimate when the tokenizer raises, against the engine's n_ctx()
\* loc[t].tokenizer records whether llm.tokenize returned or raised.
C_use(t) ==
    /\ pc[t] = "c_use"
    /\ \/ /\ \E token_count \in TokenizerCounts(req[t].textLen) :
                CountDone(t, ContextUsage(token_count,
                                          engines[loc[t].manager].params["n_ctx"].n))
          /\ loc' = [loc EXCEPT ![t].tokenizer = "counted"]
       \/ /\ CountDone(t, ContextUsage(Estimate(req[t].textLen),
                                        engines[loc[t].manager].params["n_ctx"].n))
          /\ loc' = [loc EXCEPT ![t].tokenizer = "raised"]
    /\ UNCHANGED <<slotVars, engines, req, frames, nreq, pre, lastLoad>>

CountStep(t) == C_chk(t) \/ C_use(t)

(***************************************************************************)
(* The listings and ping, server.py lines 151-209 and 444-450.  Each       *)
(* handler reads the globals and answers; none declares them global.       *)
(***************************************************************************)
\* get_loading_parameters lines 151-172: the registries as configured
StartListLoading(t, r) ==
    /\ r.kind = "loading_parameters"
    /\ Begin(t, r)
    /\ pc' = [pc EXCEPT ![t] = "done"]
    /\ resp' = [resp EXCEPT ![t] =
                  [RespInit EXCEPT !.code = 200, !.status = "loading_parameters"]]
    /\ UNCHANGED <<slotVars, engines, loc, frames, lastLoad>>

\* line 178: the model named by the request, else the current one, else the
\* main one
ListedModel(r) ==
    IF r.hasModel THEN r.model
    ELSE IF current_model # None THEN current_model ELSE "MyMainLLM"

\* lines 181-184: the defaults of the held manager when it is the listed
\* model, else those of the configuration
ListedDefaults(model_name) ==
    IF llm_manager # 0 /\ current_model = model_name
    THEN get_inference_parameter_defaults(
             MODEL_ASSIGNMENTS[engines[llm_manager].model].name)
    ELSE get_inference_parameter_defaults(model_name)

\* A faulty variant, to show the property depends on this step: the listing
\* makes the listed model the current one.
StartListInference_Selects(t, r) ==
    /\ r.kind = "inference_parameters"
    /\ Begin(t, r)
    /\ loc' = [loc EXCEPT ![t] = [LocInit EXCEPT !.model_name = ListedModel(r)]]
    /\ pc' = [pc EXCEPT ![t] = "done"]
    /\ resp' = [resp EXCEPT ![t] =
                  [RespInit EXCEPT !.code = 200, !.status = "inference_parameters",
                                   !.model = ListedModel(r),
                                   !.params = Dict(ListedDefaults(ListedModel(r)))]]
    /\ current_model' = ListedModel(r)
    /\ UNCHANGED <<llm_manager, current_loading_params, engines, frames, lastLoad>>

\* get_inference_parameters lines 174-209
StartListInference(t, r) ==
    /\ r.kind = "inference_parameters"
    /\ Begin(t, r)
    /\ loc' = [loc EXCEPT ![t] = [LocInit EXCEPT !.model_name = ListedModel(r)]]
    /\ pc' = [pc EXCEPT ![t] = "done"]
    /\ resp' = [resp EXCEPT ![t] =
                  [RespInit EXCEPT !.code = 200, !.status = "inference_parameters",
                                   !.model = ListedModel(r),
                                   !.params = Dict(ListedDefaults(ListedModel(r)))]]
    /\ UNCHANGED <<slotVars, engines, frames, lastLoad>>

\* ping lines 444-450, without the timestamp
StartPing(t, r) ==
    /\ r.kind = "ping"
    /\ Begin(t, r)
    /\ pc' = [pc EXCEPT ![t] = "done"]
    /\ resp' = [resp EXCEPT ![t] = [RespInit EXCEPT !.code = 200, !.status = "online"]]
    /\ UNCHANGED <<slotVars, engines, loc, frames, lastLoad>>

StartRead(t, r) ==
    \/ StartListLoading(t, r) \/ StartListInference(t, r) \/ StartPing(t, r)

\* the response has been sent and the handler's thread is free again
Finish(t) ==
    /\ pc[t] = "done"
    /\ pc' = [pc EXCEPT ![t] = "idle"]
    /\ req' = [req EXCEPT ![t] = NoRequest]
    /\ loc' = [loc EXCEPT ![t] = LocInit]
    /\ frames' = [frames EXCEPT ![t] = <<>>]
    /\ resp' = [resp EXCEPT ![t] = RespInit]
    /\ pre' = [pre EXCEPT ![t] = NoSnapshot]
    /\ UNCHANGED <<slotVars, engines, nreq, lastLoad>>

Step(t, tokens) ==
    \/ Q_read(t) \/ G_cmp(t) \/ G_rel(t) \/ G_chk(t) \/ G_con(t) \/ G_set(t)
    \/ G_setm(t) \/ G_setp(t) \/ G_ret(t) \/ L_resp(t)
    \/ U_chk(t) \/ U_rel(t) \/ U_m(t) \/ U_p(t)
    \/ S_proc(t) \/ S_val(t) \/ S_chunk(t, tokens) \/ S_raise(t) \/ S_end(t)
    \/ N_gen(t, tokens) \/ Finish(t)

Start(t, r) ==
    \/ StartLoad(t, r) \/ StartUnload(t, r) \/ StartStatus(t, r) \/ StartQuery(t, r)

(***************************************************************************)
(* The requests the clients send.                                          *)
(***************************************************************************)
LoadRequest(hasModel, model, body) ==
    [kind |-> "load", hasModel |-> hasModel, model |-> model, body |-> body,
     stream |-> FALSE, prompt |-> <<>>, textLen |-> 0]
UnloadRequest == [NoRequest EXCEPT !.kind = "unload"]
StatusRequest == [NoRequest EXCEPT !.kind = "status"]
QueryRequest(hasModel, model, stream, prompt, body) ==
    [kind |-> "query", hasModel |-> hasModel, model |-> model, body |-> body,
     stream |-> stream, prompt |-> prompt, textLen |-> 0]
CountRequest(hasModel, model, textLen) ==
    [NoRequest EXCEPT !.kind = "count", !.hasModel = hasModel, !.model = model,
                      !.textLen = textLen]

UnknownModel == "NoSuchModel"

LoadBodies ==
    {EmptyDict,
     [n_ctx |-> IntV(2048)],
     [n_ctx |-> StrV(<<"2", "0", "4", "8">>)],
     [n_ctx |-> IntV(4096)],
     [n_ctx |-> IntV(-500)],
     [n_threads |-> StrV(<<"a", "b", "c">>)],
     [seed |-> IntV(7)]}

QueryBodies ==
    {EmptyDict, [max_tokens |-> IntV(50)], [max_tokens |-> IntV(0)],
     [max_tokens |-> IntV(0), temperature |-> IntV(1), seed |-> IntV(7)],
     [temperature |-> StrV(<<"n", "a", "n">>), max_tokens |-> NaNV]}

SeqRequests ==
    {LoadRequest(TRUE, m, b) : m \in KnownModels \cup {UnknownModel}, b \in LoadBodies}
    \cup {LoadRequest(FALSE, None, EmptyDict)}
    \cup {UnloadRequest, StatusRequest}
    \cup {QueryRequest(TRUE, m, s, <<"h", "i">>, b) :
            m \in KnownModels \cup {UnknownModel}, s \in BOOLEAN, b \in QueryBodies}
    \cup {QueryRequest(FALSE, None, s, pr, EmptyDict) :
            s \in BOOLEAN, pr \in {<<>>, <<"h", "i">>}}

ConcRequests ==
    {LoadRequest(TRUE, "MyMainLLM", EmptyDict),
     LoadRequest(TRUE, "MySecondLLM", EmptyDict),
     UnloadRequest,
     QueryRequest(TRUE, "MyMainLLM", TRUE, <<"h", "i">>, EmptyDict),
     QueryRequest(FALSE, None, FALSE, <<"h", "i">>, EmptyDict)}

\* len(text) of the count_tokens requests
TextLens == {0, 5, 30000}

CountRequests ==
    {CountRequest(FALSE, None, n) : n \in TextLens}
    \cup {CountRequest(TRUE, "MySecondLLM", n) : n \in TextLens \ {0}}
    \cup {CountRequest(TRUE, UnknownModel, 5)}

ListingRequest(kind, hasModel, model) ==
    [NoRequest EXCEPT !.kind = kind, !.hasModel = hasModel, !.model = model]

ReadRequests ==
    {ListingRequest("loading_parameters", FALSE, None),
     ListingRequest("ping", FALSE, None),
     ListingRequest("inference_parameters", FALSE, None)}
    \cup {ListingRequest("inference_parameters", TRUE, m) :
            m \in KnownModels \cup {UnknownModel}}

\* what one engine chunk carries
Tokens == {<<"a">>, <<" ">>}
ConcTokens == {<<"a">>}

\* A request is served by the first free handler thread.
AllIdle == \A u \in Threads : pc[u] = "idle"
FirstFree(t) == pc[t] = "idle" /\ (AllIdle => t = "t1")

\* Concurrent handlers.
Next ==
    \E t \in Threads :
        \/ /\ nreq < MaxConcurrent
           /\ FirstFree(t)
           /\ \E r \in ConcRequests : Start(t, r)
           /\ UNCHANGED <<call, gen>>
        \/ Step(t, ConcTokens) /\ UNCHANGED <<call, gen>>

Spec == Init /\ [][Next]_vars

\* One request at a time: a request starts when no handler is busy.
SeqNext ==
    \E t \in Threads :
        \/ /\ nreq < MaxRequests
           /\ FirstFree(t)
           /\ AllIdle
           /\ \/ \E r \in SeqRequests : Start(t, r)
              \/ \E r \in CountRequests : StartCount(t, r)
              \/ \E r \in ReadRequests : StartRead(t, r)
           /\ UNCHANGED <<call, gen>>
        \/ Step(t, Tokens) /\ UNCHANGED <<call, gen>>
        \/ CountStep(t) /\ UNCHANGED <<call, gen>>

SeqSpec == Init /\ [][SeqNext]_vars

(***************************************************************************)
(* Streaming queries one at a time, the handler's thread being scheduled   *)
(* again and again: a handler that can take a step takes one.  The         *)
(* engine's stream is finite: at most MaxChunks chunks, then it ends or    *)
(* raises.                                                                 *)
(***************************************************************************)
\* how many streaming queries are sent
MaxStreams == 2

StreamRequests ==
    {QueryRequest(TRUE, m, TRUE, <<"h", "i">>, b) :
        m \in KnownModels \cup {UnknownModel}, b \in QueryBodies}
    \cup {QueryRequest(FALSE, None, TRUE, <<"h", "i">>, EmptyDict)}

\* the steps of a streaming query
StreamStep(t) ==
    \/ Q_read(t) \/ G_cmp(t) \/ G_rel(t) \/ G_chk(t) \/ G_con(t) \/ G_set(t)
    \/ G_setm(t) \/ G_setp(t) \/ G_ret(t)
    \/ S_proc(t) \/ S_val(t) \/ S_chunk(t, Tokens) \/ S_raise(t) \/ S_end(t)
    \/ Finish(t)

LiveNext ==
    \E t \in Threads :
        \/ /\ nreq < MaxStreams
           /\ FirstFree(t) /\ AllIdle
           /\ \E r \in StreamRequests : StartQuery(t, r)
           /\ UNCHANGED <<call, gen>>
        \/ StreamStep(t) /\ UNCHANGED <<call, gen>>

LiveSpec ==
    Init /\ [][LiveNext]_vars /\ \A t \in Threads : WF_serverVars(StreamStep(t))

(***************************************************************************)
(* config.validate_parameter on its own: one call, for every definition of *)
(* the registries and a value of every JSON type around its bounds.        *)
(***************************************************************************)
\* how far around the bounds of a definition the numbers are taken
Margin == 1

\* every parameter definition of config.py
ParamDefs ==
    {GLOBAL_LOADING_PARAMETERS[k] : k \in DOMAIN GLOBAL_LOADING_PARAMETERS}
    \cup {GLOBAL_INFERENCE_PARAMETERS[k] : k \in DOMAIN GLOBAL_INFERENCE_PARAMETERS}
    \cup {MODEL_ASSIGNMENTS[m].loading_params[k] :
             m \in KnownModels, k \in {"n_ctx"}}

\* the numbers within Margin of a bound of some definition
NearBounds ==
    UNION {((d.min - Margin)..(d.min + Margin)) \cup ((d.max - Margin)..(d.max + Margin)) :
             d \in {e \in ParamDefs : e.hasMin /\ e.hasMax}}

Texts ==
    {<<>>, <<"1">>, <<"0">>, <<"-", "1">>, <<"-", "2">>, <<"5", "1", "2">>,
     <<" ", "3", "2", " ">>, <<"3", "3">>, <<"0", ".", "0", "5">>, <<"2", ".", "0">>,
     <<"2", ".", "0", "1">>, <<"a", "b", "c">>,
     <<"t", "r", "u", "e">>, <<"T", "R", "U", "E">>, <<"T", "r", "u", "e">>,
     <<"Y", "e", "s">>, <<"y", "e", "s">>, <<"O", "N">>, <<"o", "n">>,
     <<"n", "o">>, <<"f", "a", "l", "s", "e">>, <<" ", "t", "r", "u", "e">>,
     <<"t", "r", "u", "e", "s">>}

Values ==
    {IntV(n) : n \in NearBounds} \cup {FloatV(h) : h \in NearBounds}
    \cup {FloatV(150), FloatV(-50), FloatV(51250)}
    \cup {StrV(cs) : cs \in Texts}
    \cup {BoolV(TRUE), BoolV(FALSE), NullV}

ValInit ==
    /\ ServerInit
    /\ gen = NoGen
    /\ call \in {[NoCall EXCEPT !.stage = "called", !.value = v, !.def = d] :
                   v \in Values, d \in ParamDefs}

\* validate_parameter(param_name, value, param_def) returns or raises
Validate ==
    /\ call.stage = "called"
    /\ call' = [call EXCEPT !.stage = "returned",
                            !.out = validate_parameter(call.value, call.def)]
    /\ UNCHANGED <<serverVars, gen>>

ValNext == Validate

ValSpec == ValInit /\ [][ValNext]_vars

(***************************************************************************)
(* The validation loop of LLMManager.Load on its own: one name and value,  *)
(* for a model entry of MODEL_ASSIGNMENTS whose loading_params is the      *)
(* shipped registry or one that also defines a name of the global          *)
(* registry, which config.py allows an entry to do.                        *)
(***************************************************************************)
\* the loading_params a model entry is taken to carry
TierRegistries ==
    {MODEL_ASSIGNMENTS["MyMainLLM"].loading_params,
     [n_ctx |-> IntDef(DEFAULT_N_CTX, 512, 8192),
      n_threads |-> IntDef(DEFAULT_N_THREADS, 1, 64)],
     [n_ctx |-> IntDef(DEFAULT_N_CTX, 512, 8192),
      n_gpu_layers |-> IntDef(0, 0, 50)]}

TierNames == {"n_ctx", "n_threads", "n_gpu_layers", "use_mmap", "seed"}

TierInit ==
    /\ ServerInit
    /\ gen = NoGen
    /\ call \in {[NoCall EXCEPT !.stage = "looping", !.value = v, !.name = k,
                                 !.specific = sp] :
                   v \in Values, k \in TierNames, sp \in TierRegistries}

\* Load lines 90-103 for the name and value of the call
TierValidate ==
    /\ call.stage = "looping"
    /\ call' = [call EXCEPT !.stage = "validated",
                            !.out = ValidateLoading(call.specific, call.name,
                                                    call.value)]
    /\ UNCHANGED <<serverVars, gen>>

TierNext == TierValidate

TierSpec == TierInit /\ [][TierNext]_vars

(***************************************************************************)
(* One engine output on its own: the same chunks are surfaced frame by     *)
(* frame by query_llm_stream and returned at once by query_llm, for the    *)
(* raw composition (server/server.py with generate_stream_raw and          *)
(* generate_raw) and for the templated one (server.py with generate_stream *)
(* and generate).  The manager is acquired and the engine does not raise.  *)
(***************************************************************************)
\* the two halves of a role marker, as an engine may split it over chunks
Halves(marker) ==
    {SubSeq(marker, 1, Len(marker) \div 2),
     SubSeq(marker, Len(marker) \div 2 + 1, Len(marker))}

GenTokens ==
    {<<"H", "i">>, <<" ">>}
    \cup Halves(MainAssistantPrefix) \cup Halves(ImStartAssistant) \cup Halves(ImEnd)

\* the chunk sequences of at most n chunks
RECURSIVE ChunkSeqs(_)
ChunkSeqs(n) ==
    IF n = 0 THEN {<<>>}
    ELSE ChunkSeqs(n - 1)
         \cup {Append(cs, tk) : cs \in {x \in ChunkSeqs(n - 1) : Len(x) = n - 1},
                                tk \in GenTokens}

\* str.join of the chunks
RECURSIVE Concat(_)
Concat(chunks) == IF chunks = <<>> THEN <<>> ELSE Head(chunks) \o Concat(Tail(chunks))

\* query_llm_stream has acquired the manager and emitted the processing frame
GenInit ==
    /\ ServerInit
    /\ call = NoCall
    /\ gen \in {[NoGen EXCEPT !.stage = "streaming", !.strategy = st, !.model = m,
                               !.chunks = cs,
                               !.frames = <<Frame("processing", <<>>, "")>>] :
                 st \in {"raw", "templated"}, m \in KnownModels,
                 cs \in ChunkSeqs(MaxChunks)}

\* one pass of the loops of generate_stream_raw lines 256-273 / generate_stream
\* lines 404-420 and of query_llm_stream lines 108-116
P_chunk ==
    /\ gen.stage = "streaming"
    /\ gen.pos < Len(gen.chunks)
    /\ gen' = [gen EXCEPT
                 !.pos = @ + 1,
                 !.collected = @ \o gen.chunks[gen.pos + 1],
                 !.partial_response =
                     StreamText(gen.strategy, gen.model,
                                gen.collected \o gen.chunks[gen.pos + 1]),
                 !.frames = Append(@, Frame("generating",
                                StreamText(gen.strategy, gen.model,
                                           gen.collected \o gen.chunks[gen.pos + 1]),
                                ""))]
    /\ UNCHANGED <<serverVars, call>>

\* query_llm_stream lines 121-123: the engine's stream has ended
P_end ==
    /\ gen.stage = "streaming"
    /\ gen.pos = Len(gen.chunks)
    /\ gen' = [gen EXCEPT !.stage = "ended",
                          !.frames = Append(@, Frame("complete",
                                                     gen.partial_response, ""))]
    /\ UNCHANGED <<serverVars, call>>

\* query_llm: generate_raw / generate on the same engine output, returned by
\* create_completion as one text
P_single ==
    /\ gen.stage # "none"
    /\ ~gen.answered
    /\ gen' = [gen EXCEPT !.answered = TRUE,
                          !.response = SingleText(gen.strategy, gen.model,
                                                  Concat(gen.chunks))]
    /\ UNCHANGED <<serverVars, call>>

GenNext == P_chunk \/ P_end \/ P_single

GenSpec == GenInit /\ [][GenNext]_vars

(***************************************************************************)
(* LLMManager.format_prompt on its own, as generate and generate_stream    *)
(* call it: every model, every prompt and system prompt up to a length.    *)
(***************************************************************************)
\* the longest prompt and system prompt
MaxPromptLen == 2

PromptChars == {"h", " ", "#"}

\* the texts of at most n characters
RECURSIVE PromptTexts(_)
PromptTexts(n) ==
    IF n = 0 THEN {<<>>}
    ELSE PromptTexts(n - 1)
         \cup {Append(x, c) : x \in {y \in PromptTexts(n - 1) : Len(y) = n - 1},
                               c \in PromptChars}

\* generate / generate_stream called without a formatted prompt
FmtInit ==
    /\ ServerInit
    /\ call = NoCall
    /\ gen \in {[NoGen EXCEPT !.stage = "formatting", !.strategy = "templated",
                               !.model = m, !.prompt = p, !.system_prompt = sp] :
                 m \in KnownModels, p \in PromptTexts(MaxPromptLen),
                 sp \in PromptTexts(MaxPromptLen)}

\* generate lines 317-318, generate_stream lines 374-375
Format ==
    /\ gen.stage = "formatting"
    /\ gen' = [gen EXCEPT !.stage = "formatted",
                          !.formatted_prompt =
                              format_prompt(gen.model, gen.prompt, gen.system_prompt)]
    /\ UNCHANGED <<serverVars, call>>

FmtNext == Format

FmtSpec == FmtInit /\ [][FmtNext]_vars

(***************************************************************************)
(* The properties of the slot and of the stream.                           *)
(***************************************************************************)
\* The handles that are constructed and still referenced: by the slot, by a
\* Load that has constructed its engine and not yet stored it, or by the
\* local variable manager of a handler that is still running.
LiveHandles ==
    ({llm_manager}
     \cup {loc[t].mgr : t \in {u \in Threads : pc[u] = "g_set"}}
     \cup {loc[t].manager :
             t \in {u \in Threads : pc[u] \in {"l_resp", "s_proc", "s_val", "s_gen", "n_gen"}}})
    \ {0}

SlotIs(s) ==
    /\ llm_manager = s.h
    /\ current_model = s.m
    /\ current_loading_params = s.p

SlotEmpty ==
    /\ llm_manager = 0
    /\ current_model = None
    /\ current_loading_params = NoneDict

Finished(t, kind) == pc[t] = "done" /\ req[t].kind = kind

\* the request's pair differs from the pair the slot held when it started
PairDiffers(t) ==
    \/ pre[t].m # loc[t].model_name
    \/ ~DictEq(pre[t].p, loc[t].loading_params)

\* C1: in every reachable state of the concurrent handlers at most one engine
\* handle is live (constructed and referenced by the slot, by a load in
\* progress or by a running generation).
C1_AtMostOneLiveHandle == Cardinality(LiveHandles) <= 1

\* between the comparison of line 79 and the store of line 88
InAcquire(t) == pc[t] \in {"g_rel", "g_chk", "g_con", "g_set", "g_setm", "g_setp"}
\* between the test of line 319 and the store of line 324
InRelease(t) == pc[t] \in {"u_rel", "u_m", "u_p"}

\* C2: slot transitions are serialized: no two handlers are inside acquire or
\* release at once, and two loads never both construct an engine.
C2_TransitionsSerialized ==
    \A t, u \in Threads :
        t # u => ~((InAcquire(t) \/ InRelease(t)) /\ (InAcquire(u) \/ InRelease(u)))

\* the load request of t asks for the pair of the last acquisition, and
\* nothing released the slot or failed to load since
RepeatsLastLoad(t) ==
    /\ req[t].kind = "load"
    /\ pre[t].lastLoad.set
    /\ pre[t].lastLoad.m = loc[t].model_name
    /\ pre[t].lastLoad.p = loc[t].loading_params

\* C3: one request at a time, a load request for the pair of the preceding
\* successful load (no unload, swap or failed load in between) constructs no
\* engine, releases nothing, succeeds, and the slot holds the same handle.
C3_IdempotentReuse ==
    \A t \in Threads :
        RepeatsLastLoad(t) =>
            /\ pc[t] \notin {"g_rel", "g_con", "g_set", "g_setm", "g_setp"}
            /\ loc[t].mgr = 0 /\ loc[t].rel = 0
            /\ llm_manager = pre[t].lastLoad.h
            /\ (pc[t] = "done" =>
                   resp[t].status = "success" /\ loc[t].manager = pre[t].lastLoad.h)

C3_Witness ==
    \E t \in Threads :
        /\ RepeatsLastLoad(t) /\ pc[t] = "done"
        /\ DOMAIN loc[t].loading_params.kv # {}

\* the request of t resolves to the parameter set the slot's handle was
\* constructed with, for the same identity
SameResolvedSet(t) ==
    /\ req[t].kind = "load"
    /\ pre[t].h # 0
    /\ pre[t].m = loc[t].model_name
    /\ loc[t].model_name \in KnownModels
    /\ loc[t].model_name = engines[pre[t].h].model
    /\ LoadResolve(loc[t].model_name, loc[t].loading_params).err = "none"
    /\ LoadResolve(loc[t].model_name, loc[t].loading_params).params
           = engines[pre[t].h].params

\* C4: reuse is decided over the resolved parameter set: a load request that
\* resolves to the set the held handle was constructed with (an omitted
\* parameter against its default, "2048" against 2048) reuses the handle.
C4_ReuseByResolvedSet ==
    \A t \in Threads :
        Finished(t, "load") /\ SameResolvedSet(t) =>
            loc[t].mgr = 0 /\ loc[t].rel = 0 /\ llm_manager = pre[t].h

\* a load request to a populated slot for another pair
SwapRequest(t) == req[t].kind = "load" /\ pre[t].h # 0 /\ PairDiffers(t)

\* C5: one request at a time, a load request whose pair differs from the
\* slot's active pair releases the prior handle exactly once, and when the
\* construction of the new engine begins the prior handle is released: the
\* slot is empty and nothing references the prior handle.
C5_ReleaseBeforeConstruct ==
    \A t \in Threads :
        SwapRequest(t) =>
            /\ (pc[t] \notin {"g_cmp", "g_rel"} => loc[t].rel = 1)
            /\ (pc[t] \in {"g_cmp", "g_rel"} => loc[t].rel = 0 /\ loc[t].mgr = 0)
            /\ (pc[t] = "g_con" => llm_manager = 0 /\ pre[t].h \notin LiveHandles)
            /\ (loc[t].mgr # 0 => pre[t].h \notin LiveHandles)

C5_Witness ==
    \E t \in Threads :
        /\ SwapRequest(t) /\ pc[t] = "done"
        /\ pre[t].m = loc[t].model_name
        /\ loc[t].mgr # 0 /\ llm_manager = loc[t].mgr

\* C6: after a load whose engine construction failed the slot is entirely
\* empty: no handle, no identity, no loading parameters.
C6_FailedLoadLeavesEmptySlot ==
    \A t \in Threads :
        Finished(t, "load") /\ resp[t].err = "load_error" => SlotEmpty

\* C7: a load request with an ill-typed or out-of-range loading parameter
\* leaves the slot exactly as it was before the request.
C7_InvalidLoadLeavesSlot ==
    \A t \in Threads :
        Finished(t, "load") /\ resp[t].err = "validation" => SlotIs(pre[t])

\* C8: a load or query request naming a model that is not configured leaves
\* the slot exactly as it was before the request.
C8_UnknownModelLeavesSlot ==
    \A t \in Threads :
        (/\ pc[t] = "done"
         /\ req[t].kind \in {"load", "query"}
         /\ loc[t].model_name \notin KnownModels
         /\ resp[t].err # "no_prompt")
        => SlotIs(pre[t])

\* C9: one request at a time, unload always succeeds; on an empty slot it
\* reports that no model was loaded and changes nothing; on a populated slot
\* it empties handle, identity and loading parameters; either way no handle
\* is left, so a second unload is the no-op.
C9_UnloadSafe ==
    \A t \in Threads :
        Finished(t, "unload") =>
            /\ resp[t].code = 200 /\ resp[t].status = "success"
            /\ llm_manager = 0
            /\ (pre[t].h = 0 =>
                   resp[t].err = "no_model_was_loaded" /\ SlotIs(pre[t]))
            /\ (pre[t].h # 0 => resp[t].err = "" /\ SlotEmpty)

C9_Witness ==
    \E t \in Threads :
        Finished(t, "unload") /\ pre[t].h # 0 /\ pre[t].p # NoneDict

Terminal(f) == f.status \in {"complete", "error"}

\* C10: a streaming response holds at most one terminal frame (complete or
\* error), the terminal frame is the last frame and ends the response, and a
\* response that has ended holds one.
C10_OneTerminalFrameLast ==
    \A t \in Threads :
        LET n == Len(frames[t])
        IN  /\ \A i \in 1..n : Terminal(frames[t][i]) => i = n
            /\ (n > 0 /\ Terminal(frames[t][n]) => pc[t] = "done")
            /\ (IsStream(t) /\ pc[t] = "done" => n > 0 /\ Terminal(frames[t][n]))

C10_Witness ==
    \E t \in Threads :
        /\ IsStream(t) /\ pc[t] = "done"
        /\ Len(frames[t]) = 3
        /\ frames[t][2].status = "generating"
        /\ frames[t][3].status = "error"

IsPrefix(a, b) == Len(a) <= Len(b) /\ SubSeq(b, 1, Len(a)) = a

\* the frames that carry a partial or a response
HasText(f) == f.status \in {"processing", "generating", "complete"}

\* C11: in a streaming response the partial/response values are non-decreasing
\* by prefix: every later frame's value starts with every earlier non-empty
\* value, whatever chunks the engine yields.
C11_PartialsGrowByPrefix ==
    \A t \in Threads :
        \A i, j \in 1..Len(frames[t]) :
            (/\ i < j
             /\ HasText(frames[t][i]) /\ HasText(frames[t][j])
             /\ frames[t][i].text # <<>>)
            => IsPrefix(frames[t][i].text, frames[t][j].text)

\* a token, then a blank that the strip removes again, then the complete frame
C11_Witness ==
    \E t \in Threads :
        /\ Len(frames[t]) = 4
        /\ frames[t][2].text = <<"a">>
        /\ frames[t][3].text = <<"a">>
        /\ loc[t].collected = <<"a", " ">>
        /\ frames[t][4].status = "complete"

\* C12: the first frame of every streaming response is the processing frame
\* with an empty partial, also when acquiring the model fails.
C12_ProcessingFrameFirst ==
    \A t \in Threads :
        IsStream(t) /\ pc[t] = "done" /\ resp[t].status = "stream" =>
            frames[t] # <<>> /\ frames[t][1] = Frame("processing", <<>>, "")

\* a query whose prompt is empty or missing
EmptyPrompt(t) == req[t].kind = "query" /\ req[t].prompt = <<>>

Returned == call.stage = "returned"

\* the call's value converted to the type of the call's definition
Coerced == Coerce(call.value, call.def.type)

\* C14: for an integer or float definition with min and max and a value that
\* converts, validate_parameter raises when the converted value is below min
\* or above max, and otherwise returns the converted value; min and max
\* themselves are accepted.
C14_RangeChecked ==
    (Returned /\ call.def.type \in {"integer", "float"} /\ Coerced.ok) =>
        /\ (Coerced.v.n < call.def.min \/ Coerced.v.n > call.def.max) => ~call.out.ok
        /\ (call.def.min <= Coerced.v.n /\ Coerced.v.n <= call.def.max) =>
               call.out.ok /\ call.out.v = Coerced.v

\* "512" for n_ctx, whose min is 512
C14_Witness ==
    /\ Returned
    /\ call.def = MODEL_ASSIGNMENTS["MyMainLLM"].loading_params["n_ctx"]
    /\ call.value = StrV(<<"5", "1", "2">>)
    /\ call.out = [ok |-> TRUE, v |-> IntV(512)]

UpperChar(c) ==
    CASE c = "t" -> "T" [] c = "r" -> "R" [] c = "u" -> "U" [] c = "e" -> "E"
      [] c = "y" -> "Y" [] c = "s" -> "S" [] c = "o" -> "O" [] c = "n" -> "N"
      [] OTHER -> c

\* s is the word w in some letter case
SameWord(s, w) ==
    Len(s) = Len(w) /\ \A i \in 1..Len(w) : s[i] \in {w[i], UpperChar(w[i])}

\* C15: for a boolean definition, the strings "true", "1", "yes", "on" in any
\* letter case validate to true and every other string to false, a native
\* boolean validates to itself, and no value raises.
C15_BooleanCoercion ==
    (Returned /\ call.def.type = "boolean") =>
        /\ call.out.ok
        /\ call.value.kind = "str" =>
               call.out.v = BoolV(\E w \in TrueStrings : SameWord(call.value.s, w))
        /\ call.value.kind = "bool" => call.out.v = call.value

C15_Witness ==
    /\ Returned
    /\ call.def.type = "boolean"
    /\ call.value = StrV(<<"T", "R", "U", "E">>)
    /\ call.out = [ok |-> TRUE, v |-> BoolV(TRUE)]

\* a load request for a configured model with a loading parameter that fails
\* the validation of its definition
InvalidLoad(t) ==
    /\ req[t].kind = "load"
    /\ loc[t].model_name \in KnownModels
    /\ \E k \in DOMAIN loc[t].loading_params.kv :
           ~validate_parameter(loc[t].loading_params.kv[k],
                               LoadingDef(loc[t].model_name, k)).ok

\* C16: one request at a time, a load request with a loading parameter that
\* fails validation never reaches the engine construction, has no handle
\* constructed for it, and is answered with the validation error, the other
\* parameters being valid.
C16_LoadAllOrNothing ==
    \A t \in Threads :
        InvalidLoad(t) =>
            /\ pc[t] \notin {"g_con", "g_set", "g_setm", "g_setp", "g_ret", "l_resp"}
            /\ loc[t].mgr = 0 /\ loc[t].manager = 0
            /\ (pc[t] = "done" => resp[t].code = 500 /\ resp[t].err = "validation")

C16_Witness ==
    \E t \in Threads :
        /\ InvalidLoad(t) /\ pc[t] = "done"
        /\ pre[t].h # 0 /\ pre[t].m = loc[t].model_name
        /\ engines # <<>>

\* the query of t holds a manager and has resolved the parameters of its
\* generation call, or has ended
Resolved(t) ==
    /\ req[t].kind = "query"
    /\ loc[t].manager # 0
    /\ pc[t] \in {"s_gen", "done"}

\* the inference overrides of the request of t
Overrides(t) == DOMAIN req[t].body \cap DOMAIN GLOBAL_INFERENCE_PARAMETERS

LayeredLoadingDefault(m, k) ==
    IF k \in DOMAIN MODEL_ASSIGNMENTS[m].loading_params
    THEN MODEL_ASSIGNMENTS[m].loading_params[k].default
    ELSE GLOBAL_LOADING_PARAMETERS[k].default

LayeredInferenceDefault(m, k) ==
    IF k \in DOMAIN MODEL_ASSIGNMENTS[m].default_params
    THEN MODEL_ASSIGNMENTS[m].default_params[k]
    ELSE GLOBAL_INFERENCE_PARAMETERS[k].default

\* C18: in the resolved set of a load and of a generation call every registry
\* name is present, with the caller's validated value when a valid one was
\* supplied, else the model's own default when the model defines one, else
\* the global default.
C18_LayeredResolution ==
    \A t \in Threads :
        /\ (req[t].kind = "load" /\ loc[t].mgr # 0) =>
               \A k \in DOMAIN GLOBAL_LOADING_PARAMETERS
                         \cup DOMAIN MODEL_ASSIGNMENTS[loc[t].model_name].loading_params :
                   /\ k \in DOMAIN engines[loc[t].mgr].params
                   /\ engines[loc[t].mgr].params[k] =
                          IF k \in DOMAIN loc[t].loading_params.kv
                          THEN validate_parameter(loc[t].loading_params.kv[k],
                                                  LoadingDef(loc[t].model_name, k)).v
                          ELSE LayeredLoadingDefault(loc[t].model_name, k)
        /\ (Resolved(t) /\ resp[t].err # "attribute_error") =>
               \A k \in DOMAIN GLOBAL_INFERENCE_PARAMETERS :
                   /\ k \in DOMAIN loc[t].validated
                   /\ loc[t].validated[k] =
                          IF k \in DOMAIN loc[t].inference_params
                          THEN loc[t].inference_params[k]
                          ELSE LayeredInferenceDefault(engines[loc[t].manager].model, k)

\* the names of the request's body that no registry defines
UnknownNames(t) ==
    DOMAIN req[t].body
    \ (DOMAIN GLOBAL_LOADING_PARAMETERS \cup DOMAIN GLOBAL_INFERENCE_PARAMETERS
        \cup UNION {DOMAIN MODEL_ASSIGNMENTS[m].loading_params : m \in KnownModels})

\* C19: a parameter of the request whose name no registry defines is kept, as
\* it came, in the resolved set of the load and of the generation call.
C19_UnknownParameterRetained ==
    \A t \in Threads :
        /\ (req[t].kind = "load" /\ loc[t].mgr # 0) =>
               \A k \in UnknownNames(t) :
                   /\ k \in DOMAIN engines[loc[t].mgr].params
                   /\ engines[loc[t].mgr].params[k] = req[t].body[k]
        /\ (Resolved(t) /\ resp[t].err # "attribute_error") =>
               \A k \in UnknownNames(t) :
                   /\ k \in DOMAIN loc[t].validated
                   /\ loc[t].validated[k] = req[t].body[k]

\* a non-streaming query with a prompt has been answered
AnsweredSingle(t) ==
    /\ req[t].kind = "query" /\ ~req[t].stream /\ req[t].prompt # <<>>
    /\ pc[t] = "done"

\* C20: one request at a time, a non-streaming query with a prompt is always
\* answered with the success payload; when acquiring the model or the engine
\* failed, its response text is "Error: " followed by the failure.
C20_SingleErrorAsText ==
    \A t \in Threads :
        AnsweredSingle(t) =>
            /\ resp[t].code = 200 /\ resp[t].status = "response"
            /\ frames[t] = <<>>
            /\ resp[t].err # "" =>
                   /\ IsPrefix(ErrorPrefix, resp[t].text)
                   /\ resp[t].text = ErrorPrefix \o <<resp[t].err>>

\* the engine failed for a model that was acquired
C20_Witness ==
    \E t \in Threads :
        /\ AnsweredSingle(t)
        /\ loc[t].manager # 0
        /\ resp[t].err = "engine_error"
        /\ resp[t].code = 200

\* the load request of t has been answered with success
LoadSucceeded(t) == Finished(t, "load") /\ resp[t].status = "success"

\* C21: one request at a time, after a successful load of a model with the
\* caller's overrides, status reports loaded, that model, and loading
\* parameters that contain every override of the request with its value.
C21_StatusAfterLoad ==
    \A t \in Threads :
        LoadSucceeded(t) =>
            /\ StatusReport.loaded
            /\ StatusReport.current_model = loc[t].model_name
            /\ ~StatusReport.loading_parameters.isNone
            /\ \A k \in DOMAIN req[t].body :
                   /\ k \in DOMAIN StatusReport.loading_parameters.kv
                   /\ PyEq(StatusReport.loading_parameters.kv[k], req[t].body[k])

\* the names of the loading registries that apply to a model
LoadingNames(m) ==
    DOMAIN GLOBAL_LOADING_PARAMETERS \cup DOMAIN MODEL_ASSIGNMENTS[m].loading_params

\* C27: one request at a time, after a successful load status reports the
\* resolved set: every loading parameter of the global and the model's
\* registry with its validated value, equal to the loading parameters of the
\* load's response.
C27_StatusReportsResolvedSet ==
    \A t \in Threads :
        LoadSucceeded(t) =>
            /\ ~StatusReport.loading_parameters.isNone
            /\ DOMAIN StatusReport.loading_parameters.kv = LoadingNames(loc[t].model_name)
            /\ StatusReport.loading_parameters = resp[t].params

\* a count_tokens request has been answered with its usage
Counted(t) == Finished(t, "count") /\ resp[t].code = 200

\* C22: for every text and every context size above zero the usage of a
\* count_tokens response has remaining_tokens = max_context - token_count
\* exactly, below zero when the text has more tokens than the context.
C22_RemainingIsDifference ==
    \A t \in Threads :
        Counted(t) =>
            /\ resp[t].usage.max_context > 0
            /\ resp[t].usage.remaining_tokens =
                   resp[t].usage.max_context - resp[t].usage.token_count
            /\ (resp[t].usage.token_count > resp[t].usage.max_context =>
                   resp[t].usage.remaining_tokens < 0)

\* a text whose tokens exceed the context of the loaded engine
C22_Witness ==
    \E t \in Threads :
        /\ Counted(t)
        /\ loc[t].manager # 0
        /\ resp[t].usage.token_count = 30000
        /\ resp[t].usage.remaining_tokens < 0

\* C23: when no model is loaded, count_tokens answers with the estimate
\* len(text) // 3 and with the max_context_window of the requested model's
\* entry in the configuration, and constructs no engine.
C23_EstimateWhenNotLoaded ==
    \A t \in Threads :
        (Counted(t) /\ pre[t].h = 0) =>
            /\ resp[t].usage.token_count = req[t].textLen \div 3
            /\ resp[t].usage.max_context =
                   MODEL_ASSIGNMENTS[loc[t].model_name].max_context_window
            /\ loc[t].manager = 0 /\ loc[t].mgr = 0
            /\ SlotIs(pre[t])

\* "hello": 5 characters, 1 token, of 8192
C23_Witness ==
    \E t \in Threads :
        /\ Counted(t) /\ pre[t].h = 0
        /\ req[t].textLen = 5
        /\ resp[t].usage = [token_count |-> 1, max_context |-> 8192,
                            remaining_tokens |-> 8191]

\* the handler of t is inside a generation that drives an engine handle
Driving(t) == pc[t] \in {"s_val", "s_gen", "n_gen"} /\ loc[t].manager # 0

\* C24: whenever a single or streaming generation drives an engine handle,
\* that handle is the one the slot holds: no generation goes on with a handle
\* that an unload or a swap has released.
C24_GenerationWithinResidence ==
    \A t \in Threads : Driving(t) => loc[t].manager = llm_manager

\* a load request that follows a rejected one, for a configured model with
\* valid parameters, answered, the engine construction not having failed
RecoveringLoad(t) ==
    /\ Finished(t, "load")
    /\ pre[t].lastLoad.rejected
    /\ LoadResolve(loc[t].model_name, loc[t].loading_params).err = "none"
    /\ resp[t].err # "load_error"

\* C25: one request at a time, after a load request was rejected for an
\* invalid parameter, a load request for a configured model with valid
\* parameters succeeds and leaves the slot holding a handle of that model
\* with those parameters, and status reports loaded.
C25_RecoveryAfterRejection ==
    \A t \in Threads :
        RecoveringLoad(t) =>
            /\ resp[t].status = "success"
            /\ llm_manager # 0 /\ llm_manager = loc[t].manager
            /\ engines[llm_manager].model = loc[t].model_name
            /\ engines[llm_manager].params =
                   LoadResolve(loc[t].model_name, loc[t].loading_params).params
            /\ current_model = loc[t].model_name
            /\ current_loading_params = loc[t].loading_params
            /\ StatusReport.loaded

\* the rejected request had unloaded the model; the valid one loads another
C25_Witness ==
    \E t \in Threads :
        /\ RecoveringLoad(t)
        /\ pre[t].h = 0 /\ pre[t].m # None /\ pre[t].m # loc[t].model_name
        /\ loc[t].mgr # 0 /\ llm_manager = loc[t].mgr

\* a query with a prompt that omits the model or names the model the slot
\* holds
SameModelQuery(t) ==
    /\ req[t].kind = "query" /\ req[t].prompt # <<>>
    /\ pre[t].h # 0
    /\ loc[t].model_name = pre[t].m

\* C29: one request at a time, a query that omits the model or names the
\* loaded one never releases or constructs a handle, runs on the held handle
\* and leaves handle, identity and loading parameters as they were, whatever
\* overrides it carries.
C29_QueryKeepsSlot ==
    \A t \in Threads :
        SameModelQuery(t) =>
            /\ pc[t] \notin {"g_rel", "g_con", "g_set", "g_setm", "g_setp"}
            /\ loc[t].rel = 0 /\ loc[t].mgr = 0
            /\ loc[t].manager \in {0, pre[t].h}
            /\ SlotIs(pre[t])

\* a query with overrides on a model loaded with overrides
C29_Witness ==
    \E t \in Threads :
        /\ SameModelQuery(t) /\ pc[t] = "done"
        /\ DOMAIN pre[t].p.kv # {}
        /\ DOMAIN req[t].body # {}
        /\ loc[t].manager = pre[t].h

\* C26: in the templated composition, for every sequence of engine chunks,
\* the partial/response of every frame starts with the value of every frame
\* before it, also when a role marker arrives split over chunks.
C26_TemplatedPartialsGrow ==
    gen.strategy = "templated" =>
        \A i, j \in 1..Len(gen.frames) :
            (i < j /\ HasText(gen.frames[i]) /\ HasText(gen.frames[j])) =>
                IsPrefix(gen.frames[i].text, gen.frames[j].text)

\* the call's name is defined in the global registry and in the model's own
DefinedInBothTiers ==
    call.name \in DOMAIN GLOBAL_LOADING_PARAMETERS \cap DOMAIN call.specific

C30_StreamAndSingleAgree ==
    (gen.stage = "ended" /\ gen.answered) =>
        /\ gen.frames[Len(gen.frames)].status = "complete"
        /\ gen.frames[Len(gen.frames)].text = gen.response
        /\ (gen.chunks = <<>> => gen.response = <<>>)

\* blanks around a text, in both compositions' reach
C30_Witness ==
    /\ gen.stage = "ended" /\ gen.answered
    /\ gen.strategy = "raw"
    /\ gen.chunks = << <<" ">>, <<"H", "i">> >>
    /\ gen.response = <<"H", "i">>

\* C31: one request at a time, whatever requests came before, in the
\* generation call of a query every inference parameter the query does not
\* supply has its default: the model's own when the model defines one, else
\* the registry's.
C31_OverridesPerCall ==
    \A t \in Threads :
        (Resolved(t) /\ resp[t].err # "attribute_error") =>
            \A k \in DOMAIN GLOBAL_INFERENCE_PARAMETERS \ DOMAIN req[t].body :
                /\ k \in DOMAIN loc[t].validated
                /\ loc[t].validated[k] =
                       LayeredInferenceDefault(engines[loc[t].manager].model, k)

\* the markers of the model of the formatting call
Markers == MODEL_ASSIGNMENTS[gen.model].inference_params

\* C32: the formatted prompt is the system prompt between the model's
\* system prefix and suffix, followed by the user prompt between the user
\* prefix and suffix; with an empty system prompt the system segment, its
\* prefix and suffix included, is left out.
C32_TemplatedComposition ==
    gen.stage = "formatted" =>
        gen.formatted_prompt =
            (IF gen.system_prompt = <<>> THEN <<>>
             ELSE Markers.pre_prompt_prefix \o gen.system_prompt
                  \o Markers.pre_prompt_suffix)
            \o Markers.input_prefix \o gen.prompt \o Markers.input_suffix

\* no system prompt for a model that has system markers
C32_Witness ==
    /\ gen.stage = "formatted"
    /\ gen.model = "MySecondLLM"
    /\ gen.system_prompt = <<>>
    /\ gen.prompt = <<"h", "#">>
    /\ gen.formatted_prompt = ImStartUser \o <<"h", "#">> \o ImEnd

\* the tokenizer of the loaded engine raised while counting for t
TokenizerRaised(t) ==
    pc[t] = "done" /\ req[t].kind = "count" /\ loc[t].tokenizer = "raised"

\* C33: when the requested model is loaded and its tokenizer raises,
\* count_tokens still answers 200, with the estimate len(text) // 3 and with
\* the usage against the context size of the loaded engine.
C33_TokenizerFailureEstimates ==
    \A t \in Threads :
        TokenizerRaised(t) =>
            /\ resp[t].code = 200
            /\ resp[t].usage.token_count = req[t].textLen \div 3
            /\ resp[t].usage.max_context = engines[llm_manager].params["n_ctx"].n
            /\ resp[t].usage.remaining_tokens =
                   engines[llm_manager].params["n_ctx"].n - req[t].textLen \div 3

\* 30000 characters against an engine loaded with n_ctx 4096
C33_Witness ==
    \E t \in Threads :
        /\ TokenizerRaised(t)
        /\ req[t].textLen = 30000
        /\ resp[t].usage = [token_count |-> 10000, max_context |-> 4096,
                            remaining_tokens |-> -5904]

\* a handler is between the store of the handle and the store of its
\* parameters, lines 86-88
Storing(t) == pc[t] \in {"g_setm", "g_setp"}

\* C34: under concurrent requests, whenever the slot holds a handle and no
\* handler is in the middle of storing one, the recorded identity and
\* loading parameters are those the held handle was constructed for.
C34_SlotConsistent ==
    (llm_manager # 0 /\ \A t \in Threads : ~Storing(t)) =>
        /\ current_model = engines[llm_manager].model
        /\ current_loading_params = engines[llm_manager].requested

\* the load of u has constructed a handle and returned successfully while
\* the only other request is a query of t for the same model
LoadReturnedBesideQuery(u, t) ==
    /\ t # u
    /\ Finished(u, "load") /\ resp[u].code = 200 /\ loc[u].mgr # 0
    /\ req[t].kind = "query"
    /\ loc[t].model_name = loc[u].model_name

\* C35: when a query for a model overlaps a load of that model, then after
\* the load has returned successfully the slot holds the handle the load
\* constructed and records the load's parameters: the query does not release
\* it to load again with the parameters it read before.
C35_QueryKeepsConcurrentLoad ==
    \A u, t \in Threads :
        LoadReturnedBesideQuery(u, t) =>
            /\ llm_manager = loc[u].mgr
            /\ current_loading_params = loc[u].loading_params

\* the load of t names, without overrides, the model that a query loaded
\* into the empty slot, and nothing released the slot since
LoadAfterAutoLoad(t) ==
    /\ req[t].kind = "load"
    /\ loc[t].loading_params = Dict(EmptyDict)
    /\ pre[t].lastLoad.set
    /\ pre[t].lastLoad.p = NoneDict
    /\ pre[t].lastLoad.m = loc[t].model_name
    /\ pre[t].h = pre[t].lastLoad.h

\* C36: one request at a time, after a query has loaded a model into the
\* empty slot, a load request for that model without overrides reuses the
\* handle: it releases nothing, constructs nothing, and the slot holds the
\* same handle.
C36_LoadAfterAutoLoadReuses ==
    \A t \in Threads :
        (LoadAfterAutoLoad(t) /\ pc[t] = "done") =>
            /\ loc[t].rel = 0 /\ loc[t].mgr = 0
            /\ llm_manager = pre[t].h

\* the generator of a streaming response of t is running
Streaming(t) == IsStream(t) /\ pc[t] \notin {"idle", "done"}

\* the streaming response of t has ended with its terminal frame
Ended(t) ==
    /\ IsStream(t) /\ pc[t] = "done"
    /\ Len(frames[t]) > 0
    /\ Terminal(frames[t][Len(frames[t])])

\* C37: every streaming response, whether the acquisition of the model
\* returns or fails and whether the engine's finite stream ends or raises,
\* eventually emits its terminal frame and ends.
C37_StreamTerminates ==
    \A t \in Threads : Streaming(t) ~> Ended(t)

\* a stream of the most chunks that ends
C37_Witness ==
    \E t \in Threads :
        /\ Ended(t)
        /\ loc[t].nchunks = MaxChunks
        /\ frames[t][Len(frames[t])].status = "complete"

\* the generating frames of t before its frame i
GeneratingBefore(t, i) ==
    {j \in 1..(i - 1) : frames[t][j].status = "generating"}

\* the partial of the last generating frame before frame i, "" without one
LastPartial(t, i) ==
    IF GeneratingBefore(t, i) = {} THEN <<>>
    ELSE frames[t][CHOOSE j \in GeneratingBefore(t, i) :
                       \A k \in GeneratingBefore(t, i) : k <= j].text

\* C38: the response of a complete frame is the partial of the last
\* generating frame of its stream, the empty string when the stream has no
\* generating frame; an error frame carries no partial text.
C38_CompleteIsLastPartial ==
    \A t \in Threads :
        \A i \in 1..Len(frames[t]) :
            /\ frames[t][i].status = "complete" =>
                   frames[t][i].text = LastPartial(t, i)
            /\ frames[t][i].status = "error" => frames[t][i].text = <<>>

\* a blank and a token: the complete frame repeats the stripped partial
C38_Witness ==
    \E t \in Threads :
        /\ Len(frames[t]) = 4
        /\ loc[t].collected = <<" ", "a">>
        /\ frames[t][3] = Frame("generating", <<"a">>, "")
        /\ frames[t][4] = Frame("complete", <<"a">>, "")

\* the request of t is a status, listing, ping or count_tokens request
ReadOnly(t) ==
    req[t].kind \in {"status", "loading_parameters", "inference_parameters",
                     "ping", "count"}

\* C39: one request at a time, a status, loading-parameter listing,
\* inference-parameter listing, ping or count_tokens request leaves handle,
\* identity and loading parameters as they were and neither releases nor
\* constructs an engine, whatever model it names and whether or not a model
\* is loaded.
C39_ReadOnlyRequests ==
    \A t \in Threads :
        ReadOnly(t) =>
            /\ SlotIs(pre[t])
            /\ lastLoad = pre[t].lastLoad
            /\ loc[t].mgr = 0 /\ loc[t].rel = 0
            /\ pc[t] \in {"c_chk", "c_use", "done"}

\* the listing names a model other than the loaded one
C39_Witness ==
    \E t \in Threads :
        /\ Finished(t, "inference_parameters")
        /\ pre[t].h # 0 /\ pre[t].m = "MyMainLLM"
        /\ resp[t].model = "MySecondLLM"
        /\ resp[t].params.kv["temperature"] = FloatV(80)

\* v has the Python type of the definition
HasType(v, param_def) ==
    CASE param_def.type = "integer" -> v.kind = "int"
      [] param_def.type = "float" -> v.kind \in {"float", "nan"}
      [] OTHER -> v.kind = "bool"

\* v lies within the bounds of the definition; NaN lies within none
Within(v, param_def) ==
    \/ param_def.type = "boolean"
    \/ /\ v.kind # "nan"
       /\ param_def.hasMin => param_def.min <= v.n
       /\ param_def.hasMax => v.n <= param_def.max

\* the engine call of the query of t has been made
EngineCalled(t) ==
    /\ req[t].kind = "query"
    /\ loc[t].manager # 0
    /\ loc[t].validated # EmptyDict

\* C40: every value of a registered loading parameter an engine was
\* constructed with, and every value of a registered inference parameter a
\* completion call was made with, has the type of its definition and lies
\* within its min and max.
C40_NoOutOfRangeAtEngine ==
    /\ \A h \in 1..Len(engines) :
           \A k \in DOMAIN engines[h].params :
               IsRegistered(engines[h].model, k) =>
                   /\ HasType(engines[h].params[k], LoadingDef(engines[h].model, k))
                   /\ Within(engines[h].params[k], LoadingDef(engines[h].model, k))
    /\ \A t \in Threads :
           EngineCalled(t) =>
               \A k \in DOMAIN loc[t].validated \cap DOMAIN GLOBAL_INFERENCE_PARAMETERS :
                   /\ HasType(loc[t].validated[k], GLOBAL_INFERENCE_PARAMETERS[k])
                   /\ Within(loc[t].validated[k], GLOBAL_INFERENCE_PARAMETERS[k])
====
